---- MODULE Spec2Model ----
(***************************************************************************)
(* A model of the Study-Chatbot retrieval, context-budgeting, question     *)
(* answering and exam generation pipeline (src/src/rag_system.py,          *)
(* src/src/pdf_processor.py, src/src/exam_generator.py, src/src/chatbot.py,*)
(* src/src/app.py).                                                        *)
(*                                                                         *)
(* Text is a sequence of one-character strings.  The vector index and the  *)
(* language model are collaborators: every call to them draws its answer   *)
(* (or its failure) from a bounded set.  Relevance scores are integers,    *)
(* the score times 100 (0.1 is 10).                                        *)
(***************************************************************************)
EXTENDS Integers, Sequences, FiniteSets, TLC

VARIABLES
    index,          \* the vector store: the stored passages (ids into DocContent), in stored order
    call,           \* the last completed retrieval call: its arguments, the index's answers, its result
    ov,             \* get_document_overview in flight: its position, its locals, the passages
                    \* the index has returned to it so far
    pdf,            \* PDFProcessor.chunk_text: the text it is given, the chunks of the
                    \* splitter and the passages it returns
    uploaded_documents, \* StudyChatbot.uploaded_documents: the tracked files
    uploads,        \* the upload_pdf calls that returned success since the chatbot was
                    \* created or last reset
    last_return,    \* what the last upload_pdf or reset_system call returned
    exam_run,       \* the exam request in flight: its position, its exam_config, the
                    \* sections of the exam so far and the model's outputs, in call order
    exam_result,    \* what chatbot.generate_exam returned
    chat_history,   \* StudyChatbot.chat_history of the one instance get_chatbot returns
    sessions,       \* the front-end sessions: the question each has in flight, the
                    \* retrieval done for it, the messages sent and the response
    appended,       \* every turn appended to chat_history since it was last emptied
    asked           \* the number of ask_question calls made since the initial state

ctxvars == <<index, call, ov>>
chunkvars == <<pdf>>
trackvars == <<uploaded_documents, uploads, last_return>>
examvars == <<uploaded_documents, uploads, last_return, exam_run, exam_result>>
chatvars == <<chat_history, sessions, appended, asked>>
vars == <<index, call, ov, pdf, uploaded_documents, uploads, last_return, exam_run, exam_result,
          chat_history, sessions, appended, asked>>

(***************************************************************************)
(* Bounds of the model.                                                    *)
(***************************************************************************)
MaxDocs == 18        \* passages the index holds at most
MaxK == 5            \* similarity_search is called with k in 1..MaxK
ChunkSize == 60      \* settings.chunk_size of the runs modelled
ChunkOverlap == 12   \* settings.chunk_overlap of the runs modelled
MaxQuestions == 2    \* questions the model answers one section with at most
MaxBlocks == 4       \* blocks a text given to chunk_text has at most

(***************************************************************************)
(* Text helpers.                                                           *)
(***************************************************************************)
Min(a, b) == IF a < b THEN a ELSE b

Rep(c, n) == [i \in 1..n |-> c]

\* s[:n]
Take(s, n) == SubSeq(s, 1, Min(n, Len(s)))

\* sub in s
Contains(s, sub) ==
    \E i \in 1..(Len(s) - Len(sub) + 1) : SubSeq(s, i, i + Len(sub) - 1) = sub

\* str.lower()
UpperLetters ==
    <<"A", "B", "C", "D", "E", "F", "G", "H", "I", "J", "K", "L", "M",
      "N", "O", "P", "Q", "R", "S", "T", "U", "V", "W", "X", "Y", "Z">>
LowerLetters ==
    <<"a", "b", "c", "d", "e", "f", "g", "h", "i", "j", "k", "l", "m",
      "n", "o", "p", "q", "r", "s", "t", "u", "v", "w", "x", "y", "z">>

LowerChar(c) ==
    IF \E i \in 1..Len(UpperLetters) : UpperLetters[i] = c
    THEN LowerLetters[CHOOSE i \in 1..Len(UpperLetters) : UpperLetters[i] = c]
    ELSE c

Lower(s) == [i \in 1..Len(s) |-> LowerChar(s[i])]

RECURSIVE Join(_, _)
\* sep.join(parts)
Join(parts, sep) ==
    IF Len(parts) = 0 THEN <<>>
    ELSE IF Len(parts) = 1 THEN parts[1]
    ELSE parts[1] \o sep \o Join(Tail(parts), sep)


(***************************************************************************)
(* The passages the index may hold.  A passage is named by its id; its     *)
(* page_content and its metadata 'filename' are DocContent[id] and         *)
(* DocFile[id].  Passages 2 and 16 have equal contents, passage 17 shares  *)
(* its first 200 characters with them, passage 4 is only 8 characters, and *)
(* passages 1 and 3 carry introduction-type terms.                         *)
(***************************************************************************)
Letters ==
    <<"a", "b", "c", "d", "e", "f", "g", "h", "j", "k", "l", "m", "n",
      "q", "r", "t", "u", "v", "w", "x", "y", "z">>

NoFile == <<>>          \* the metadata has no 'filename'

DocContent ==
    [i \in 1..MaxDocs |->
        CASE i = 1 -> <<"I", "n", "t", "r", "o", "d", "u", "c", "t", "i", "o", "n", " ">> \o Rep("a", 107)
          [] i = 2 -> Rep("b", 240)
          [] i = 3 -> <<"S", "u", "m", "m", "a", "r", "y", " ", "P", "a", "g", "e", " ", "1", " ">> \o Rep("e", 45)
          [] i = 4 -> Rep("d", 8)
          [] i = 16 -> Rep("b", 240)
          [] i = 17 -> Rep("b", 200) \o Rep("c", 40)
          [] OTHER -> <<Letters[((i - 1) % Len(Letters)) + 1], " ">> \o Rep("x", 100 + 10 * (i % 3))]

DocFile ==
    [i \in 1..MaxDocs |->
        CASE i % 3 = 1 -> <<"a", ".", "p", "d", "f">>
          [] i % 3 = 2 -> <<"b", ".", "p", "d", "f">>
          [] OTHER -> NoFile]

\* len(content) // 4
EstimatedTokens(content) == Len(content) \div 4

(***************************************************************************)
(* The index as a collaborator.  For one query it ranks the stored         *)
(* passages; the ranking is a rotation of the stored order (by a multiple  *)
(* of 5), chosen per call.  A search returns the first k of the ranking    *)
(* (all, when fewer are stored), or raises.                                *)
(***************************************************************************)
RAISE == [raised |-> TRUE, docs |-> <<>>]

Answer(docs) == [raised |-> FALSE, docs |-> docs]

Rotate(s, o) ==
    [i \in 1..Len(s) |-> s[((i - 1 + o) % Len(s)) + 1]]

Offsets == {0} \cup {o \in 0..(Len(index) - 1) : o % 5 = 0}

\* vector_store.similarity_search(query, k): a list of documents
SearchAnswers(k) ==
    {RAISE} \cup {Answer(Take(Rotate(index, o), k)) : o \in Offsets}

\* The scores of one ranking: the first hi candidates are relevant (0.5), then eq
\* candidates sit on the threshold (0.1), the others are below it (0.05).
ScoreAt(i, hi, eq) == IF i <= hi THEN 50 ELSE IF i <= hi + eq THEN 10 ELSE 5

\* vector_store.similarity_search_with_relevance_scores(query, k): (document, score) pairs
ScoredAnswers(k) ==
    {RAISE} \cup
    { Answer([i \in 1..Min(k, Len(index)) |->
                 [doc |-> Rotate(index, o)[i], score |-> ScoreAt(i, hi, eq)]]) :
        o \in Offsets, hi \in 0..Min(k, Len(index)), eq \in 0..1 }

(***************************************************************************)
(* RAGSystem.similarity_search                                             *)
(***************************************************************************)
RelevanceThreshold == 10     \* score > 0.1

RECURSIVE FilterLoop(_, _, _, _)
\* the loop over results_with_scores: keep score > 0.1, stop once k are kept
FilterLoop(results, k, i, filtered) ==
    IF i > Len(results) THEN filtered
    ELSE LET kept == IF results[i].score > RelevanceThreshold
                     THEN Append(filtered, results[i].doc)
                     ELSE filtered
         IN  IF Len(kept) >= k THEN kept
             ELSE FilterLoop(results, k, i + 1, kept)

\* the first k candidates, whatever their scores
filtered_results_unscored(fetched, k) ==
    [i \in 1..Min(k, Len(fetched)) |-> fetched[i].doc]

filtered_results(fetched, k) == FilterLoop(fetched, k, 1, <<>>)

\* the fallback test: len(filtered_results) < k // 2
FallsBack(filtered, k) == Len(filtered) < k \div 2

\* similarity_search with the fallback's answer dropped: the filtered set is kept
similarity_search_keeps_filtered(k, fetched, refetch) ==
    IF fetched.raised THEN <<>>
    ELSE IF FallsBack(filtered_results(fetched.docs, k), k) /\ refetch.raised THEN <<>>
    ELSE filtered_results(fetched.docs, k)

\* similarity_search(query, k), given what the index answers to the scored fetch of
\* 2k and to the unfiltered re-fetch of k (asked only on fallback)
similarity_search(k, fetched, refetch) ==
    IF fetched.raised THEN <<>>
    ELSE LET filtered == filtered_results(fetched.docs, k)
         IN  IF FallsBack(filtered, k)
             THEN IF refetch.raised THEN <<>> ELSE refetch.docs
             ELSE filtered

(***************************************************************************)
(* The budget walk of get_relevant_context and get_document_overview.  An  *)
(* entry of the bundle records the passage, its source label, the content  *)
(* slice appended and whether the slice was truncated.                     *)
(***************************************************************************)
Ellipsis == <<".", ".", ".">>
LabelOpen == <<"[", "F", "r", "o", "m", ":", " ">>
LabelClose == <<"]">>
UnknownSource == <<"U", "n", "k", "n", "o", "w", "n", " ", "s", "o", "u", "r", "c", "e">>
DocumentSource == <<"D", "o", "c", "u", "m", "e", "n", "t">>
EscapedNewline == <<"\\", "n">>      \* the two characters of "\\n"
Newline == <<"\n">>
ContextDelimiter == EscapedNewline \o EscapedNewline
OverviewDelimiter == <<"\n", "\n", "=", "=", "=", " ", "D", "O", "C", "U", "M", "E", "N", "T", " ", "S", "E", "C", "T", "I", "O", "N", " ", "=", "=", "=", "\n", "\n">>

MinPartialChars == 100          \* get_relevant_context: remaining_chars > 100
MinPartialCharsOverview == 200  \* get_document_overview: remaining_chars > 200

\* doc.metadata.get('filename', default)
SourceOf(d, default) == IF DocFile[d] = NoFile THEN default ELSE DocFile[d]

RECURSIVE WalkBudgetOn(_, _, _, _, _, _, _)
\* the walk with `continue` where the code has `break`: it goes on after a passage
\* that does not fit
WalkBudgetOn(docs, i, entries, token_count, max_tokens, min_chars, default) ==
    IF i > Len(docs) THEN entries
    ELSE LET content == DocContent[docs[i]]
             source == SourceOf(docs[i], default)
             estimated_tokens == EstimatedTokens(content)
             remaining_chars == (max_tokens - token_count) * 4
         IN  IF token_count + estimated_tokens > max_tokens
             THEN WalkBudgetOn(docs, i + 1,
                     IF remaining_chars > min_chars
                     THEN Append(entries,
                             [doc |-> docs[i], source |-> source, truncated |-> TRUE,
                              content |-> Take(content, remaining_chars) \o Ellipsis])
                     ELSE entries,
                     token_count, max_tokens, min_chars, default)
             ELSE WalkBudgetOn(docs, i + 1,
                     Append(entries,
                        [doc |-> docs[i], source |-> source, truncated |-> FALSE,
                         content |-> content]),
                     token_count + estimated_tokens, max_tokens, min_chars, default)

RECURSIVE WalkBudget(_, _, _, _, _, _, _)
\* for doc in docs: append while token_count + estimated_tokens <= max_tokens; else
\* append a truncated slice when remaining_chars > min_chars, and stop
WalkBudget(docs, i, entries, token_count, max_tokens, min_chars, default) ==
    IF i > Len(docs) THEN entries
    ELSE LET content == DocContent[docs[i]]
             source == SourceOf(docs[i], default)
             estimated_tokens == EstimatedTokens(content)
             remaining_chars == (max_tokens - token_count) * 4
         IN  IF token_count + estimated_tokens > max_tokens
             THEN IF remaining_chars > min_chars
                  THEN Append(entries,
                          [doc |-> docs[i], source |-> source, truncated |-> TRUE,
                           content |-> Take(content, remaining_chars) \o Ellipsis])
                  ELSE entries
             ELSE WalkBudget(docs, i + 1,
                     Append(entries,
                        [doc |-> docs[i], source |-> source, truncated |-> FALSE,
                         content |-> content]),
                     token_count + estimated_tokens, max_tokens, min_chars, default)

\* f"[From: {source}]<newline>{content}" of each entry
Parts(entries, newline) ==
    [i \in 1..Len(entries) |->
        LabelOpen \o entries[i].source \o LabelClose \o newline \o entries[i].content]

context_entries(docs, max_tokens) ==
    WalkBudget(docs, 1, <<>>, 0, max_tokens, MinPartialChars, UnknownSource)

\* get_relevant_context with the search left at the default k = 5 of
\* similarity_search
get_relevant_context_default_k(max_tokens, fetched, refetch) ==
    LET docs == similarity_search(5, fetched, refetch)
        entries == context_entries(docs, max_tokens)
    IN  [docs |-> docs, entries |-> entries,
         out |-> Join(Parts(entries, EscapedNewline), ContextDelimiter)]

\* get_relevant_context(query, max_tokens): the entries and the returned string
get_relevant_context(max_tokens, fetched, refetch) ==
    LET docs == similarity_search(10, fetched, refetch)
        entries == context_entries(docs, max_tokens)
    IN  [docs |-> docs, entries |-> entries,
         out |-> Join(Parts(entries, EscapedNewline), ContextDelimiter)]

(***************************************************************************)
(* RAGSystem.get_document_overview                                         *)
(***************************************************************************)
HashPrefix == 200        \* doc.page_content[:200]
OverviewLimit == 15      \* len(overview_docs) >= 15 ends the collection
OverviewMinimum == 5     \* len(overview_docs) < 5 asks for the general content
IntroQueries == 4        \* len(intro_queries)

\* hash(doc.page_content[:200]): the hash is taken to be free of collisions, and is
\* named by the first stored passage text with the same 200-character prefix
content_hash(d) ==
    CHOOSE h \in 1..MaxDocs :
        /\ Take(DocContent[h], HashPrefix) = Take(DocContent[d], HashPrefix)
        /\ \A g \in 1..(h - 1) :
              Take(DocContent[g], HashPrefix) /= Take(DocContent[d], HashPrefix)

ContentHash == [d \in 1..MaxDocs |-> content_hash(d)]

\* duplicates told by the whole content instead of the 200-character hash
UnseenWholeContent(d, seen_content) ==
    \A h \in seen_content : DocContent[h] /= DocContent[d]

\* content_hash not in seen_content
Unseen(d, seen_content) == ContentHash[d] \notin seen_content

RECURSIVE CollectUnseen(_, _, _, _)
\* for doc in docs: append it unless its content hash was seen (and, for the general
\* content, unless len(overview_docs) has reached 15); <<overview_docs, seen_content>>
CollectUnseen(docs, i, acc, limited) ==
    IF i > Len(docs) THEN acc
    ELSE IF Unseen(docs[i], acc[2]) /\ (limited => Len(acc[1]) < OverviewLimit)
         THEN CollectUnseen(docs, i + 1,
                 <<Append(acc[1], docs[i]), acc[2] \cup {ContentHash[docs[i]]}>>, limited)
         ELSE CollectUnseen(docs, i + 1, acc, limited)

IntroKeywords ==
    <<<<"i", "n", "t", "r", "o", "d", "u", "c", "t", "i", "o", "n">>,
      <<"o", "v", "e", "r", "v", "i", "e", "w">>,
      <<"s", "u", "m", "m", "a", "r", "y">>,
      <<"d", "e", "f", "i", "n", "e">>,
      <<"d", "e", "f", "i", "n", "i", "t", "i", "o", "n">>,
      <<"o", "b", "j", "e", "c", "t", "i", "v", "e", "s">>,
      <<"g", "o", "a", "l", "s">>,
      <<"p", "u", "r", "p", "o", "s", "e">>,
      <<"o", "u", "t", "l", "i", "n", "e">>,
      <<"a", "f", "t", "e", "r", " ", "t", "h", "i", "s", " ", "l", "e", "s", "s", "o", "n">>>>

PageOne == <<"p", "a", "g", "e", " ", "1">>

\* get_intro_score(content)
get_intro_score(content) ==
    LET content_lower == Lower(content)
        hits == Cardinality({j \in 1..Len(IntroKeywords) :
                                Contains(content_lower, IntroKeywords[j])})
    IN  hits + (IF Contains(content_lower, PageOne)
                   \/ Contains(content_lower, IntroKeywords[1])
                THEN 2 ELSE 0)

IntroScore == [d \in 1..MaxDocs |-> get_intro_score(DocContent[d])]

RECURSIVE InsertByScore(_, _)
\* d placed after every element whose score is at least its own
InsertByScore(sorted, d) ==
    IF Len(sorted) = 0 THEN <<d>>
    ELSE IF IntroScore[Head(sorted)] >= IntroScore[d]
         THEN <<Head(sorted)>> \o InsertByScore(Tail(sorted), d)
         ELSE <<d>> \o sorted

RECURSIVE SortByIntroScore(_, _, _)
\* overview_docs.sort(key=get_intro_score, reverse=True): stable, highest first
SortByIntroScore(docs, i, sorted) ==
    IF i > Len(docs) THEN sorted
    ELSE SortByIntroScore(docs, i + 1, InsertByScore(sorted, docs[i]))

\* the overview walk with the minimum of get_relevant_context
overview_entries_specific_minimum(docs, max_tokens) ==
    WalkBudget(docs, 1, <<>>, 0, max_tokens, MinPartialChars, DocumentSource)

overview_entries(docs, max_tokens) ==
    WalkBudget(docs, 1, <<>>, 0, max_tokens, MinPartialCharsOverview, DocumentSource)

\* the part of get_document_overview after the collection: rank, walk, join
build_overview(overview_docs, max_tokens) ==
    LET docs == SortByIntroScore(overview_docs, 1, <<>>)
        entries == IF Len(overview_docs) = 0 THEN <<>>
                   ELSE overview_entries(docs, max_tokens)
    IN  [docs |-> docs, entries |-> entries,
         out |-> Join(Parts(entries, Newline), OverviewDelimiter)]

(***************************************************************************)
(* The retrieval operations as actions.  One call runs at a time; a call   *)
(* that has returned leaves its record in `call` until the index changes.  *)
(***************************************************************************)
Budgets == {0, 10, 26, 30, 51, 60, 100, 200, 4000}

NoCall == [op |-> "none"]
NoPdf == [state |-> "none"]
NoRun == [pc |-> "idle"]
NoReturn == [op |-> "none", success |-> FALSE]
\* the chatbot after one successful upload_pdf per tracked file
Tracked(docs) ==
    /\ uploaded_documents = docs
    /\ uploads = Cardinality(docs)
    /\ last_return = NoReturn
NoResult == [returned |-> FALSE]
OvIdle == [pc |-> "idle"]

\* the front-end sessions (browser tabs) of the one Streamlit process
Sessions == {"tab 1", "tab 2"}
IdleSession == [pc |-> "idle"]

\* no session has asked anything
NoChat ==
    /\ chat_history = <<>>
    /\ sessions = [s \in Sessions |-> IdleSession]
    /\ appended = <<>>
    /\ asked = 0

InitCtx ==
    /\ index = <<>>
    /\ call = NoCall
    /\ ov = OvIdle
    /\ pdf = NoPdf
    /\ Tracked({})
    /\ exam_run = NoRun
    /\ exam_result = NoResult
    /\ NoChat

\* add_documents: the index stores one more passage
AddDocument ==
    /\ ov.pc = "idle"
    /\ Len(index) < MaxDocs
    /\ index' = Append(index, Len(index) + 1)
    /\ call' = NoCall
    /\ UNCHANGED <<ov, chunkvars, examvars, chatvars>>

\* whether similarity_search(query, k) asks the index a second time
Refetched(k, fetched) ==
    ~fetched.raised /\ FallsBack(filtered_results(fetched.docs, k), k)

\* what the index answers to the re-fetch: nothing when it is not asked
Refetches(k, fetched) ==
    IF Refetched(k, fetched) THEN SearchAnswers(k) ELSE {Answer(<<>>)}

\* similarity_search(query, k)
SimilaritySearch ==
    /\ ov.pc = "idle" /\ call = NoCall
    /\ \E k \in 1..MaxK :
       \E fetched \in ScoredAnswers(2 * k) :
       \E refetch \in Refetches(k, fetched) :
          call' = [op |-> "similarity_search", k |-> k, fetched |-> fetched,
                   fellback |-> Refetched(k, fetched), refetch |-> refetch,
                   result |-> similarity_search(k, fetched, refetch)]
    /\ UNCHANGED <<index, ov, chunkvars, examvars, chatvars>>

\* get_relevant_context(query, max_tokens)
GetRelevantContext ==
    /\ ov.pc = "idle" /\ call = NoCall
    /\ \E max_tokens \in Budgets, fetched \in ScoredAnswers(20) :
       \E refetch \in Refetches(10, fetched) :
          LET r == get_relevant_context(max_tokens, fetched, refetch)
          IN  call' = [op |-> "get_relevant_context", max_tokens |-> max_tokens,
                       raised |-> FALSE, docs |-> r.docs, entries |-> r.entries, out |-> r.out]
    /\ UNCHANGED <<index, ov, chunkvars, examvars, chatvars>>

\* the record get_document_overview leaves when it returns
OverviewReturn(max_tokens, overview_docs, returned, raised) ==
    LET r == build_overview(overview_docs, max_tokens)
    IN  [op |-> "get_document_overview", max_tokens |-> max_tokens, raised |-> raised,
         collected |-> overview_docs, returned |-> returned,
         docs |-> IF raised THEN <<>> ELSE r.docs,
         entries |-> IF raised THEN <<>> ELSE r.entries,
         out |-> IF raised THEN <<>> ELSE r.out]

\* get_document_overview(max_tokens) is called: overview_docs = [], seen_content = set()
GetDocumentOverview ==
    /\ ov.pc = "idle" /\ call = NoCall
    /\ \E max_tokens \in Budgets :
          ov' = [pc |-> "intro", query |-> 1, max_tokens |-> max_tokens,
                 overview_docs |-> <<>>, seen_content |-> {}, returned |-> <<>>]
    /\ call' = NoCall
    /\ UNCHANGED <<index, chunkvars, examvars, chatvars>>

\* one pass of the loop over intro_queries: the search of 5, the new passages, the
\* test of the limit; after the last pass the general content is asked for, or the
\* overview is built and returned
OverviewIntroQuery ==
    /\ ov.pc = "intro"
    /\ \E answer \in SearchAnswers(5) :
          IF answer.raised
          THEN /\ call' = OverviewReturn(ov.max_tokens, ov.overview_docs, ov.returned, TRUE)
               /\ ov' = OvIdle
          ELSE LET acc == CollectUnseen(answer.docs, 1,
                              <<ov.overview_docs, ov.seen_content>>, FALSE)
                   last == Len(acc[1]) >= OverviewLimit \/ ov.query = IntroQueries
               IN  IF ~last
                   THEN /\ ov' = [ov EXCEPT !.query = @ + 1, !.overview_docs = acc[1],
                                            !.seen_content = acc[2],
                                            !.returned = @ \o answer.docs]
                        /\ call' = NoCall
                   ELSE IF Len(acc[1]) < OverviewMinimum
                   THEN /\ ov' = [ov EXCEPT !.pc = "general", !.overview_docs = acc[1],
                                            !.seen_content = acc[2],
                                            !.returned = @ \o answer.docs]
                        /\ call' = NoCall
                   ELSE /\ call' = OverviewReturn(ov.max_tokens, acc[1],
                                        ov.returned \o answer.docs, FALSE)
                        /\ ov' = OvIdle
    /\ UNCHANGED <<index, chunkvars, examvars, chatvars>>

\* the search of 10 for "main content", then the overview is built and returned
OverviewGeneralQuery ==
    /\ ov.pc = "general"
    /\ \E answer \in SearchAnswers(10) :
          IF answer.raised
          THEN call' = OverviewReturn(ov.max_tokens, ov.overview_docs, ov.returned, TRUE)
          ELSE call' = OverviewReturn(ov.max_tokens,
                          CollectUnseen(answer.docs, 1,
                              <<ov.overview_docs, ov.seen_content>>, TRUE)[1],
                          ov.returned \o answer.docs, FALSE)
    /\ ov' = OvIdle
    /\ UNCHANGED <<index, chunkvars, examvars, chatvars>>

NextCtx ==
    \/ AddDocument
    \/ SimilaritySearch
    \/ GetRelevantContext
    \/ GetDocumentOverview
    \/ OverviewIntroQuery
    \/ OverviewGeneralQuery

SpecCtx == InitCtx /\ [][NextCtx]_vars

(***************************************************************************)
(* Properties of the context assembler (specification SpecCtx).            *)
(***************************************************************************)
BuiltContext ==
    call.op \in {"get_relevant_context", "get_document_overview"} /\ ~call.raised

RECURSIVE SumTokens(_)
\* the sum of len(content) // 4 over the entries
SumTokens(entries) ==
    IF Len(entries) = 0 THEN 0
    ELSE EstimatedTokens(entries[1].content) + SumTokens(Tail(entries))

\* C2: in every bundle built by get_relevant_context or get_document_overview the
\* entries follow the retrieval (rank) order, every entry but the last is a whole
\* passage, only the last entry may be truncated, and the sum of len(content) // 4
\* over the entries does not exceed the budget.
C2_BundleWithinBudget ==
    BuiltContext =>
        /\ Len(call.entries) <= Len(call.docs)
        /\ \A i \in 1..Len(call.entries) :
              /\ call.entries[i].doc = call.docs[i]
              /\ call.entries[i].truncated => i = Len(call.entries)
              /\ ~call.entries[i].truncated =>
                    call.entries[i].content = DocContent[call.docs[i]]
        /\ SumTokens(call.entries) <= call.max_tokens
        /\ call.op = "get_document_overview" =>
              \A i, j \in 1..Len(call.docs) :
                 i < j => IntroScore[call.docs[i]] >= IntroScore[call.docs[j]]

\* a bundle of whole passages closed by a truncated slice, with passages left over
C2_Witness ==
    /\ BuiltContext
    /\ Len(call.entries) >= 2
    /\ call.entries[Len(call.entries)].truncated
    /\ Len(call.entries) < Len(call.docs)

\* C3: the estimate len(returned) // 4 of the whole returned string, labels and
\* delimiters included, exceeds the budget by no more than the ellipsis marker.
C3_ReturnedStringWithinBudget ==
    BuiltContext =>
        (Len(call.out) - Len(Ellipsis)) \div 4 <= call.max_tokens

\* the candidates of the scored fetch with relevance_score > 0.1
Relevant(fetched) ==
    {i \in 1..Len(fetched) : fetched[i].score > RelevanceThreshold}

SearchAnswered ==
    call.op = "similarity_search" /\ ~call.fetched.raised /\ ~call.refetch.raised

\* the result is the whole answer of an unfiltered re-fetch of k
ResultIsRefetch ==
    /\ call.fellback
    /\ call.result = call.refetch.docs
    /\ Len(call.result) = Min(call.k, Len(index))

C21_OverviewCollectsAtMostLimit ==
    /\ ov.pc # "idle" => Len(ov.overview_docs) <= OverviewLimit
    /\ ov.pc = "general" => Len(ov.overview_docs) < OverviewMinimum
    /\ call.op = "get_document_overview" => Len(call.collected) <= OverviewLimit

\* the whole passages of the bundle, and the characters the budget leaves
\* after them
WholeEntries == SelectSeq(call.entries, LAMBDA e : ~e.truncated)
RemainingChars == (call.max_tokens - SumTokens(WholeEntries)) * 4

\* the walk of the built context stopped at a passage that did not fit
WalkOverflowed ==
    /\ BuiltContext
    /\ Len(WholeEntries) < Len(call.docs)
    /\ SumTokens(WholeEntries)
           + EstimatedTokens(DocContent[call.docs[Len(WholeEntries) + 1]]) > call.max_tokens

\* the bundle ends with the truncated slice of the passage that did not fit:
\* its first RemainingChars characters and the ellipsis
EndsWithSlice ==
    /\ Len(call.entries) = Len(WholeEntries) + 1
    /\ call.entries[Len(call.entries)].truncated
    /\ call.entries[Len(call.entries)].content =
           Take(DocContent[call.docs[Len(call.entries)]], RemainingChars) \o Ellipsis

\* C22 (as claimed): in get_document_overview and get_relevant_context alike,
\* when the next passage does not fit the budget the walk stops, and a
\* truncated slice of that passage is included exactly when the remaining
\* budget is of more than 100 characters.
C22_SameMinimumForBothWalks ==
    WalkOverflowed =>
        IF RemainingChars > 100 THEN EndsWithSlice
        ELSE call.entries = WholeEntries

\* C22 (amended): both walks stop at the first passage that does not fit and
\* include a truncated slice of it exactly when the remaining budget is of
\* more than a minimum of characters, but the minimum differs: more than
\* 100 characters in get_relevant_context, more than 200 characters in
\* get_document_overview.
C22_MinimumPerWalk ==
    WalkOverflowed =>
        IF RemainingChars > (IF call.op = "get_document_overview" THEN 200 ELSE 100)
        THEN EndsWithSlice
        ELSE call.entries = WholeEntries

\* C22 witness: an overview whose walk stopped with between 101 and 200
\* characters of budget left and no slice, and whole passages before it.
C22_Witness ==
    /\ WalkOverflowed
    /\ call.op = "get_document_overview"
    /\ RemainingChars > 100
    /\ RemainingChars <= 200
    /\ call.entries = WholeEntries
    /\ Len(call.entries) >= 1

\* the fetched candidates of the search whose score is above 0.1, in the
\* order the index returned them
RelevantFetched == SelectSeq(call.fetched.docs, LAMBDA c : c.score > RelevanceThreshold)

\* similarity_search(query, k) has returned without falling back: the index
\* answered the fetch and k // 2 or more of the candidates are relevant
SearchedWithoutFallback ==
    /\ call.op = "similarity_search"
    /\ ~call.fetched.raised
    /\ Len(RelevantFetched) >= call.k \div 2

\* C20: when similarity_search(query, k) does not fall back, at most 2k
\* candidates were fetched and its result is the first k of the candidates
\* with relevance_score > 0.1 (all of them, if fewer than k), in the order
\* the index returned them: no candidate at or below 0.1, and never more
\* than k.
C20_FilteredFirstRelevant ==
    SearchedWithoutFallback =>
        /\ ~call.fellback
        /\ Len(call.fetched.docs) <= 2 * call.k
        /\ Len(call.result) = Min(call.k, Len(RelevantFetched))
        /\ \A i \in 1..Len(call.result) : call.result[i] = RelevantFetched[i].doc

\* C20 witness: a search with k = 3 that fetched six candidates, four of
\* them relevant and one exactly at 0.1, and returned the first three.
C20_Witness ==
    /\ SearchedWithoutFallback
    /\ call.k = 3
    /\ Len(call.fetched.docs) = 6
    /\ Len(RelevantFetched) = 4
    /\ \E i \in 1..Len(call.fetched.docs) : call.fetched.docs[i].score = RelevanceThreshold
    /\ Len(call.result) = 3

SamePrefix(d, e) == Take(DocContent[d], HashPrefix) = Take(DocContent[e], HashPrefix)

\* C5: no two passages of an overview bundle have the same first 200 characters,
\* whatever duplicates the index returned.
C5_NoDuplicateHash ==
    (call.op = "get_document_overview" /\ ~call.raised) =>
        /\ \A i, j \in 1..Len(call.entries) :
              i /= j => ~SamePrefix(call.entries[i].doc, call.entries[j].doc)
        /\ \A i, j \in 1..Len(call.collected) :
              i /= j => ~SamePrefix(call.collected[i], call.collected[j])

\* the index returned passages with equal and with merely hash-equal contents, and
\* the bundle has several entries
C5_Witness ==
    /\ call.op = "get_document_overview" /\ ~call.raised
    /\ Len(call.entries) >= 2
    /\ \E i, j \in 1..Len(call.returned) :
          /\ call.returned[i] /= call.returned[j]
          /\ DocContent[call.returned[i]] = DocContent[call.returned[j]]
    /\ \E i, j \in 1..Len(call.returned) :
          /\ DocContent[call.returned[i]] /= DocContent[call.returned[j]]
          /\ SamePrefix(call.returned[i], call.returned[j])
    /\ \E i \in 1..Len(call.entries) : SamePrefix(call.entries[i].doc, 2)

(***************************************************************************)
(* PDFProcessor.clean_text and PDFProcessor.chunk_text.                    *)
(*                                                                         *)
(* settings.chunk_size and settings.chunk_overlap are read from the        *)
(* environment (defaults 1000 and 200); the model runs the splitter with   *)
(* ChunkSize and ChunkOverlap, the same 5:1 ratio, so that texts of a few  *)
(* blocks split into several chunks.  The thresholds of the code (5, 10,   *)
(* 50, 30%) are the code's.                                                *)
(***************************************************************************)
AlphaChars ==
    {"a", "b", "c", "d", "e", "f", "g", "h", "i", "j", "k", "l", "m",
     "n", "o", "p", "q", "r", "s", "t", "u", "v", "w", "x", "y", "z",
     "A", "B", "C", "D", "E", "F", "G", "H", "I", "J", "K", "L", "M",
     "N", "O", "P", "Q", "R", "S", "T", "U", "V", "W", "X", "Y", "Z"}
DigitChars == {"0", "1", "2", "3", "4", "5", "6", "7", "8", "9"}
SpaceChars == {" ", "\t", "\n", "\r", "\f"}      \* \s, str.strip()
BlankChars == {" ", "\t"}                        \* [ \t]

\* the least and the greatest element of a non-empty set of integers
Least(S) == CHOOSE i \in S : \A j \in S : i <= j
Greatest(S) == CHOOSE i \in S : \A j \in S : i >= j

\* the last index at or below i of s whose character is outside class, or 0
RECURSIVE LastOutside(_, _, _)
LastOutside(s, i, class) ==
    IF i = 0 \/ s[i] \notin class THEN i ELSE LastOutside(s, i - 1, class)

\* str.strip()
strip(s) ==
    LET last == LastOutside(s, Len(s), SpaceChars)
    IN  IF last = 0 THEN <<>>
        ELSE SubSeq(s, Least({i \in 1..last : s[i] \notin SpaceChars}), last)

\* sum(1 for c in s if c.isalpha())
alpha_chars(s) == Cardinality({i \in 1..Len(s) : s[i] \in AlphaChars})

\* the index after the longest run of characters of `class` that starts at i
SkipRun(s, i, class) ==
    LET stops == {j \in i..Len(s) : s[j] \notin class}
    IN  IF stops = {} THEN Len(s) + 1 ELSE Least(stops)

\* the literal lit stands at index i of s
LitAt(s, i, lit) ==
    /\ i >= 1
    /\ i + Len(lit) - 1 <= Len(s)
    /\ SubSeq(s, i, i + Len(lit) - 1) = lit

\* the same, with re.IGNORECASE
LitAtIgnoreCase(s, i, lit) ==
    /\ i >= 1
    /\ i + Len(lit) - 1 <= Len(s)
    /\ Lower(SubSeq(s, i, i + Len(lit) - 1)) = Lower(lit)

\* Each pattern of clean_text as a matcher: the index after the match that
\* starts at i, or 0 when the pattern does not match at i.

\* r'\[Page \d+\]\s*'
PageMarkerEndNoMatch(s, i) == 0

PageMarkerEnd(s, i) ==
    IF ~LitAt(s, i, <<"[", "P", "a", "g", "e", " ">>) THEN 0
    ELSE LET d == i + 6
             e == SkipRun(s, d, DigitChars)
         IN  IF e > d /\ e <= Len(s) /\ s[e] = "]"
             THEN SkipRun(s, e + 1, SpaceChars)
             ELSE 0

\* r'Page\s*\d+\s*of\s*\d+', re.IGNORECASE
PageOfEnd(s, i) ==
    IF ~LitAtIgnoreCase(s, i, <<"p", "a", "g", "e">>) THEN 0
    ELSE LET a == SkipRun(s, i + 4, SpaceChars)
             b == SkipRun(s, a, DigitChars)
             c == SkipRun(s, b, SpaceChars)
             d == SkipRun(s, c + 2, SpaceChars)
             e == SkipRun(s, d, DigitChars)
         IN  IF b > a /\ LitAtIgnoreCase(s, c, <<"o", "f">>) /\ e > d THEN e ELSE 0

\* r'[ \t]+'
BlankRunEnd(s, i) ==
    IF s[i] \in BlankChars THEN SkipRun(s, i, BlankChars) ELSE 0

\* r'\n\s*\n\s*\n+': from a line break to the last line break of the run of
\* whitespace it opens, when the run has three line breaks or more
LineBreaksEnd(s, i) ==
    IF s[i] # "\n" THEN 0
    ELSE LET e == SkipRun(s, i, SpaceChars)
             breaks == {j \in i..(e - 1) : s[j] = "\n"}
         IN  IF Cardinality(breaks) >= 3 THEN Greatest(breaks) + 1 ELSE 0

\* the matcher of the pattern named
MatchEnd(pattern, s, i) ==
    CASE pattern = "page marker" -> PageMarkerEnd(s, i)
      [] pattern = "page of" -> PageOfEnd(s, i)
      [] pattern = "blanks" -> BlankRunEnd(s, i)
      [] pattern = "line breaks" -> LineBreaksEnd(s, i)

RECURSIVE ReSub(_, _, _, _)
\* re.sub(pattern, repl, s), from index i on
ReSub(pattern, repl, s, i) ==
    IF i > Len(s) THEN <<>>
    ELSE LET e == MatchEnd(pattern, s, i)
         IN  IF e > i THEN repl \o ReSub(pattern, repl, s, e)
             ELSE <<s[i]>> \o ReSub(pattern, repl, s, i + 1)

\* text.replace('\x0c', ''); the texts of the model hold none of the
\* typographic characters the other replacements are about
RemoveFormFeed(s) == SelectSeq(s, LAMBDA c : c # "\f")

RECURSIVE split(_, _)
\* s.split(c), for a one-character separator
split(s, c) ==
    LET hits == {i \in 1..Len(s) : s[i] = c}
    IN  IF hits = {} THEN <<s>>
        ELSE <<SubSeq(s, 1, Least(hits) - 1)>>
                 \o split(SubSeq(s, Least(hits) + 1, Len(s)), c)

MinLineChars == 5        \* len(line) < 5
FormattingLineChars == 10 \* len(line) > 10

\* the line (stripped) is appended to cleaned_lines
KeepLine(line) ==
    /\ ~(Len(line) < MinLineChars)
    /\ ~(\A i \in 1..Len(line) : line[i] \in DigitChars)
    /\ ~(10 * alpha_chars(line) < 3 * Len(line) /\ Len(line) > FormattingLineChars)

clean_text(text) ==
    IF text = <<>> THEN <<>>
    ELSE LET t1 == ReSub("page marker", <<>>, text, 1)
             t2 == ReSub("page of", <<>>, t1, 1)
             t3 == ReSub("blanks", <<" ">>, t2, 1)
             t4 == ReSub("line breaks", <<"\n", "\n">>, t3, 1)
             t5 == RemoveFormFeed(t4)
             lines == split(t5, "\n")
             stripped == [i \in 1..Len(lines) |-> strip(lines[i])]
             cleaned_lines == SelectSeq(stripped, KeepLine)
         IN  strip(Join(cleaned_lines, <<"\n">>))

(***************************************************************************)
(* The text splitter chunk_text is built with: langchain's                 *)
(* RecursiveCharacterTextSplitter(chunk_size, chunk_overlap, separators),  *)
(* with the library's defaults keep_separator=True, strip_whitespace=True  *)
(* and length_function=len.  The separators are the strings the source     *)
(* writes: "\\n\\n" and "\\n" are a backslash followed by the letter n.    *)
(***************************************************************************)
Separators == << <<"\\", "n", "\\", "n">>, <<"\\", "n">>, <<" ">>, <<>> >>

RECURSIVE Concat(_)
\* "".join(parts)
Concat(parts) == IF Len(parts) = 0 THEN <<>> ELSE parts[1] \o Concat(Tail(parts))

\* the first index from `from` on at which sub stands in s, or 0
FirstAt(s, sub, from) ==
    LET hits == {i \in from..(Len(s) - Len(sub) + 1) : SubSeq(s, i, i + Len(sub) - 1) = sub}
    IN  IF hits = {} THEN 0 ELSE Least(hits)

RECURSIVE SplitKeep(_, _, _)
\* re.split("(sep)", s) with every separator glued to the piece after it;
\* when not `first`, s begins with the separator of its first piece
SplitKeep(s, sep, first) ==
    LET p == FirstAt(s, sep, IF first THEN 1 ELSE Len(sep) + 1)
    IN  IF p = 0 THEN <<s>>
        ELSE <<SubSeq(s, 1, p - 1)>> \o SplitKeep(SubSeq(s, p, Len(s)), sep, FALSE)

\* _split_text_with_regex(text, separator, keep_separator=True)
split_text_with_regex(text, separator) ==
    LET splits == IF separator = <<>> THEN [i \in 1..Len(text) |-> <<text[i]>>]
                  ELSE SplitKeep(text, separator, TRUE)
    IN  SelectSeq(splits, LAMBDA piece : piece # <<>>)

RECURSIVE PopFront(_, _, _)
\* _merge_splits: the while loop that drops pieces from the front of
\* current_doc until what is left fits the overlap (the separator it joins
\* with is "", keep_separator being set)
PopFront(current_doc, total, len) ==
    IF total > ChunkOverlap \/ (total + len > ChunkSize /\ total > 0)
    THEN PopFront(Tail(current_doc), total - Len(current_doc[1]), len)
    ELSE [current_doc |-> current_doc, total |-> total]

\* _join_docs: the joined and stripped text, appended unless empty
AppendJoined(docs, current_doc) ==
    LET doc == strip(Concat(current_doc))
    IN  IF doc = <<>> THEN docs ELSE Append(docs, doc)

RECURSIVE merge_splits(_, _, _, _, _)
\* _merge_splits(splits, ""), from split i on
merge_splits(splits, i, docs, current_doc, total) ==
    IF i > Len(splits) THEN AppendJoined(docs, current_doc)
    ELSE LET d == splits[i]
             len == Len(d)
         IN  IF total + len > ChunkSize /\ Len(current_doc) > 0
             THEN LET kept == PopFront(current_doc, total, len)
                  IN  merge_splits(splits, i + 1, AppendJoined(docs, current_doc),
                                   Append(kept.current_doc, d), kept.total + len)
             ELSE merge_splits(splits, i + 1, docs, Append(current_doc, d), total + len)

\* the first separator that is empty or occurs in the text
SeparatorIndex(text, separators) ==
    Least({i \in 1..Len(separators) : separators[i] = <<>> \/ Contains(text, separators[i])})

RECURSIVE split_text(_, _)
RECURSIVE SplitLoop(_, _, _, _, _)
\* _split_text: the loop over the pieces, from piece i on
SplitLoop(splits, i, good_splits, final_chunks, new_separators) ==
    IF i > Len(splits)
    THEN IF good_splits # <<>>
         THEN final_chunks \o merge_splits(good_splits, 1, <<>>, <<>>, 0)
         ELSE final_chunks
    ELSE IF Len(splits[i]) < ChunkSize
         THEN SplitLoop(splits, i + 1, Append(good_splits, splits[i]), final_chunks, new_separators)
         ELSE LET merged == IF good_splits # <<>>
                            THEN final_chunks \o merge_splits(good_splits, 1, <<>>, <<>>, 0)
                            ELSE final_chunks
                  other == IF new_separators = <<>> THEN <<splits[i]>>
                           ELSE split_text(splits[i], new_separators)
              IN  SplitLoop(splits, i + 1, <<>>, merged \o other, new_separators)

\* RecursiveCharacterTextSplitter._split_text(text, separators)
split_text(text, separators) ==
    LET n == SeparatorIndex(text, separators)
        separator == separators[n]
        new_separators == IF separator = <<>> THEN <<>>
                          ELSE SubSeq(separators, n + 1, Len(separators))
    IN  SplitLoop(split_text_with_regex(text, separator), 1, <<>>, <<>>, new_separators)

\* text_splitter.split_documents([doc]): the page_content of each chunk
split_documents(page_content) == split_text(page_content, Separators)

MinChunkChars == 50      \* len(content) < 50

\* r'^\s*\[?Page\s*\d+\]?\s*$', re.IGNORECASE, matched against the stripped content
IsPageMarker(content) ==
    LET a == IF Len(content) > 0 /\ content[1] = "[" THEN 2 ELSE 1
        b == a + 4
        c == SkipRun(content, b, SpaceChars)
        d == SkipRun(content, c, DigitChars)
        e == IF d <= Len(content) /\ content[d] = "]" THEN d + 1 ELSE d
    IN  /\ LitAtIgnoreCase(content, a, <<"p", "a", "g", "e">>)
        /\ d > c
        /\ e = Len(content) + 1

\* the chunk passes the three tests of the filter loop
QualityChunkAnyLetters(content) ==
    /\ ~(Len(content) < MinChunkChars)
    /\ ~IsPageMarker(content)

QualityChunk(content) ==
    /\ ~(Len(content) < MinChunkChars)
    /\ ~(10 * alpha_chars(content) < 3 * Len(content))
    /\ ~IsPageMarker(content)

RECURSIVE FilterChunks(_, _, _)
\* the filter loop of chunk_text, from chunk i on
FilterChunks(chunks, i, quality_chunks) ==
    IF i > Len(chunks) THEN quality_chunks
    ELSE LET content == strip(chunks[i])
         IN  IF QualityChunk(content)
             THEN FilterChunks(chunks, i + 1,
                      Append(quality_chunks,
                             [page_content |-> chunks[i],
                              chunk_id |-> Len(quality_chunks),
                              chunk_count |-> Len(chunks),
                              source_type |-> "pdf",
                              content_length |-> Len(content)]))
             ELSE FilterChunks(chunks, i + 1, quality_chunks)

chunk_text(text) ==
    IF text = <<>> THEN [chunks |-> <<>>, quality_chunks |-> <<>>]
    ELSE LET chunks == split_documents(clean_text(text))
         IN  [chunks |-> chunks, quality_chunks |-> FilterChunks(chunks, 1, <<>>)]

(***************************************************************************)
(* The texts chunk_text is given: up to MaxBlocks blocks, each a word of   *)
(* letters, a word of digits, three short numeric lines, a short word, a   *)
(* page marker or a line break.                                            *)
(***************************************************************************)
Blocks ==
    { Rep("a", 26) \o <<" ">>,
      Rep("7", 26) \o <<" ">>,
      <<"1", "2", "3", "4", " ", "5", "6", "7", "8", "\n",
        "1", "2", "3", "4", " ", "5", "6", "7", "8", "\n",
        "1", "2", "3", "4", " ", "5", "6", "7", "8", "\n">>,
      <<"a", "b", "1", " ">>,
      <<"[", "P", "a", "g", "e", " ", "1", "2", "]", " ">>,
      <<"\n">> }

Texts == {Concat(bs) : bs \in UNION {[1..n -> Blocks] : n \in 0..MaxBlocks}}

\* the one-sentence text with a page marker and a copyright notice
CleanSentence ==
    <<"U", "l", "t", "r", "a", "s", "o", "n", "i", "c", " ", "t", "e", "s",
      "t", "i", "n", "g", " ", "d", "e", "t", "e", "c", "t", "s", " ", "s",
      "u", "b", "s", "u", "r", "f", "a", "c", "e", " ", "f", "l", "a", "w",
      "s", ".">>
CopyrightNotice == <<"1", "2", " ", "©", " ", "2", "0", "2", "0">>
ScenarioText ==
    CleanSentence \o <<" ", "[", "P", "a", "g", "e", " ", "1", "]", " ">> \o CopyrightNotice

InitChunk ==
    /\ pdf \in {[state |-> "extracted", text |-> t] : t \in Texts \cup {ScenarioText}}
    /\ index = <<>>
    /\ call = NoCall
    /\ ov = OvIdle
    /\ Tracked({})
    /\ exam_run = NoRun
    /\ exam_result = NoResult
    /\ NoChat

\* PDFProcessor.chunk_text(text)
ChunkText ==
    /\ pdf.state = "extracted"
    /\ LET r == chunk_text(pdf.text)
       IN  pdf' = [state |-> "chunked", text |-> pdf.text,
                   chunks |-> r.chunks, quality_chunks |-> r.quality_chunks]
    /\ UNCHANGED <<ctxvars, examvars, chatvars>>

NextChunk == ChunkText

SpecChunk == InitChunk /\ [][NextChunk]_vars

(***************************************************************************)
(* Properties of the chunker (specification SpecChunk).                    *)
(***************************************************************************)
Chunked == pdf.state = "chunked"

\* C1: every passage chunk_text returns has at least 50 characters once
\* surrounding whitespace is stripped, and its letters are at least 30% of
\* its length.
C1_QualityOfPassages ==
    Chunked =>
        \A i \in 1..Len(pdf.quality_chunks) :
            LET passage == pdf.quality_chunks[i].page_content
            IN  /\ Len(strip(passage)) >= 50
                /\ 10 * alpha_chars(passage) >= 3 * Len(passage)

\* C1 witness: chunk_text returned a passage and dropped a chunk of 50
\* characters or more that has too few letters.
C1_Witness ==
    /\ Chunked
    /\ Len(pdf.quality_chunks) > 0
    /\ \E i \in 1..Len(pdf.chunks) :
           /\ Len(strip(pdf.chunks[i])) >= 50
           /\ 10 * alpha_chars(strip(pdf.chunks[i])) < 3 * Len(strip(pdf.chunks[i]))


\* chunk_text has returned for the one-sentence text
ScenarioChunked == Chunked /\ pdf.text = ScenarioText

\* C15 (as claimed): chunking the one-sentence text removes the page marker
\* and the copyright notice, and returns exactly one passage, the clean
\* sentence, tagged chunk_id = 0 and chunk_count = 1.
C15_ScenarioLeavesCleanSentence ==
    ScenarioChunked =>
        /\ Len(pdf.quality_chunks) = 1
        /\ pdf.quality_chunks[1].page_content = CleanSentence
        /\ pdf.quality_chunks[1].chunk_id = 0
        /\ pdf.quality_chunks[1].chunk_count = 1

\* C15 (amended): chunking the one-sentence text removes the page marker
\* only; the copyright notice stays on the line of the sentence, and
\* exactly one passage is returned, the sentence followed by the notice (54
\* characters), tagged chunk_id = 0 and chunk_count = 1.
C15_ScenarioKeepsCopyrightNotice ==
    ScenarioChunked =>
        /\ clean_text(pdf.text) = CleanSentence \o <<" ">> \o CopyrightNotice
        /\ pdf.chunks = <<CleanSentence \o <<" ">> \o CopyrightNotice>>
        /\ Len(pdf.quality_chunks) = 1
        /\ pdf.quality_chunks[1].page_content = CleanSentence \o <<" ">> \o CopyrightNotice
        /\ pdf.quality_chunks[1].chunk_id = 0
        /\ pdf.quality_chunks[1].chunk_count = 1
        /\ pdf.quality_chunks[1].content_length = 54
        /\ ~Contains(pdf.quality_chunks[1].page_content, <<"[", "P", "a", "g", "e">>)

\* C15 witness: chunk_text returned one passage for the one-sentence text.
C15_Witness ==
    /\ ScenarioChunked
    /\ Len(pdf.quality_chunks) = 1
    /\ Contains(pdf.quality_chunks[1].page_content, CopyrightNotice)

\* C25 (as claimed): the passages chunk_text returns carry chunk_id 0, 1, 2,
\* ... in order, and each carries as chunk_count the number of passages
\* returned, the source type "pdf" and the length of its content.
C25_TagsCountReturnedPassages ==
    Chunked =>
        \A i \in 1..Len(pdf.quality_chunks) :
            LET passage == pdf.quality_chunks[i]
            IN  /\ passage.chunk_id = i - 1
                /\ passage.chunk_count = Len(pdf.quality_chunks)
                /\ passage.source_type = "pdf"
                /\ passage.content_length = Len(passage.page_content)

(***************************************************************************)
(* ExamGenerator and StudyChatbot.generate_exam.                           *)
(*                                                                         *)
(* The language model is a collaborator: a call raises, or answers with a  *)
(* text that is not JSON, or with a JSON value.  A JSON value is modelled  *)
(* by its type and the sequence Python iterates over (the elements of an   *)
(* array, the keys of an object, the characters of a string); an element   *)
(* is modelled by whether it is an object, the fields it has and, for a    *)
(* multiple-choice question, its choices and its correct_answer.           *)
(***************************************************************************)
Kinds == <<"multiple_choice", "true_false", "short_answer", "essay">>
KindSet == {Kinds[i] : i \in 1..Len(Kinds)}

\* the fields each prompt asks the model for
ContractFields(kind) ==
    CASE kind = "multiple_choice" -> {"question", "choices", "correct_answer", "explanation"}
      [] kind = "true_false" -> {"statement", "correct_answer", "explanation"}
      [] kind = "short_answer" -> {"question", "answer", "key_points"}
      [] kind = "essay" -> {"question", "key_points", "guidance"}

ChoiceLetters == {"A", "B", "C", "D"}

Item(object, fields, choices_type, choices, correct_answer) ==
    [object |-> object, fields |-> fields, choices_type |-> choices_type,
     choices |-> choices, correct_answer |-> correct_answer]

\* an element that follows the prompt of its kind
GoodItem(kind) ==
    IF kind = "multiple_choice"
    THEN Item(TRUE, ContractFields(kind), "object", ChoiceLetters, "B")
    ELSE Item(TRUE, ContractFields(kind), "absent", {}, "")

\* an element that is not a JSON object (a string, a number)
TextItem == Item(FALSE, {}, "absent", {}, "")

\* the elements the model may put in the array it answers with
Items(kind) ==
    {GoodItem(kind), Item(TRUE, {"text"}, "absent", {}, ""), TextItem}
    \cup (IF kind = "multiple_choice"
          THEN {Item(TRUE, ContractFields(kind), "object", ChoiceLetters, "E"),
                Item(TRUE, ContractFields(kind), "object", {"A", "B"}, "A"),
                Item(TRUE, ContractFields(kind), "array", {}, "A")}
          ELSE {})

Json(type, items) == [outcome |-> "json", type |-> type, items |-> items]
Raised == [outcome |-> "raised", type |-> "none", items |-> <<>>]
NotJson == [outcome |-> "text", type |-> "none", items |-> <<>>]

\* what one call of the model for a section of `kind` may come to: arrays
\* hold up to MaxQuestions elements, all but the last following the prompt
ModelOutputs(kind) ==
    {Raised, NotJson, Json("scalar", <<>>), Json("array", <<>>),
     Json("object", <<TextItem>>), Json("string", <<TextItem, TextItem>>)}
    \cup {Json("array", [i \in 1..n |-> IF i < n THEN GoodItem(kind) ELSE last]) :
              n \in 1..MaxQuestions, last \in Items(kind)}

EmptyList == Json("array", <<>>)

\* generate_multiple_choice, generate_true_false, generate_short_answer and
\* generate_essay_questions: the try block returns json.loads(content);
\* the model call raising, json.loads raising, and len(questions) raising
\* for a JSON number, boolean or null are all caught and answered with []
generate_questions(output) ==
    IF output.outcome = "json" /\ output.type # "scalar" THEN output ELSE EmptyList

\* `if mcq:`
SectionKeptAlways(questions) == TRUE

SectionKept(questions) == Len(questions.items) > 0

RECURSIVE SumQuestions(_)
\* sum(len(section["questions"]) for section in exam["sections"].values())
SumQuestions(sections) ==
    IF Len(sections) = 0 THEN 0
    ELSE Len(sections[1].questions.items) + SumQuestions(Tail(sections))

total_questions_of_sections(sections) == Len(sections)

total_questions(sections) == SumQuestions(sections)

NoConfig == [none |-> TRUE]      \* exam_config is None
DefaultConfig ==
    [multiple_choice |-> 5, true_false |-> 5, short_answer |-> 3, essay |-> 2]
RequestedCount == 3
ExamConfigs ==
    {NoConfig} \cup UNION {[S -> {0, RequestedCount}] : S \in SUBSET KindSet}

\* exam_config.get(kind, 1): a missing kind counts as requested
ConfigCountDefaultOne(exam_config, kind) ==
    LET config == IF exam_config = NoConfig THEN DefaultConfig ELSE exam_config
    IN  IF kind \in DOMAIN config THEN config[kind] ELSE 1

\* exam_config.get(kind, 0)
ConfigCount(exam_config, kind) ==
    LET config == IF exam_config = NoConfig THEN DefaultConfig ELSE exam_config
    IN  IF kind \in DOMAIN config THEN config[kind] ELSE 0

\* format_exam_for_display and format_answers_for_display call q.get(...)
\* on every question, and q.get("choices", {}).items() on every
\* multiple-choice question: both raise AttributeError on a value that is
\* not an object
FormatRaises(exam) ==
    \E s \in 1..Len(exam.sections) :
        \E i \in 1..Len(exam.sections[s].questions.items) :
            LET q == exam.sections[s].questions.items[i]
            IN  \/ ~q.object
                \/ /\ exam.sections[s].key = "multiple_choice"
                   /\ q.choices_type = "array"

(***************************************************************************)
(* The two renderings.  A rendering is the list `output` of lines; a line  *)
(* is modelled by what it shows: its type, the section and the position in *)
(* the section of the question it belongs to, the question number printed, *)
(* and for a choice its letter and whether it carries the correct-answer   *)
(* marker.  A field of a question is shown when the question has it (the   *)
(* values of the fields present are non-empty).  The choices of a question *)
(* are listed in the order of the object, which is alphabetical here.      *)
(***************************************************************************)
Line(type, key, idx, num, letter, marked) ==
    [type |-> type, key |-> key, idx |-> idx, num |-> num,
     letter |-> letter, marked |-> marked]

HeaderLine(type) == Line(type, "", 0, 0, "", FALSE)
SectionLine(type, key) == Line(type, key, 0, 0, "", FALSE)
QuestionLine(type, key, idx, num) == Line(type, key, idx, num, "", FALSE)

LetterOrder == <<"A", "B", "C", "D", "E">>

\* q.get("choices", {}).items(), as the letters in order
ChoiceItems(q) == SelectSeq(LetterOrder, LAMBDA letter : letter \in q.choices)

\* the lines shown for the fields of `shown` the question has, in that order
FieldLines(q, shown, key, idx, num) ==
    LET present == SelectSeq(shown, LAMBDA field : field \in q.fields)
    IN  [i \in 1..Len(present) |-> QuestionLine(present[i], key, idx, num)]

\* the question raises AttributeError when rendered: q.get on a value that is
\* not an object, .items() on choices that are not an object
QuestionRaises(key, q) ==
    \/ ~q.object
    \/ key = "multiple_choice" /\ q.choices_type = "array"

\* format_exam_for_display: the lines of one question
exam_question_lines(key, q, idx, num) ==
    <<QuestionLine("question", key, idx, num)>>
    \o (CASE key = "multiple_choice" ->
                [i \in 1..Len(ChoiceItems(q)) |->
                    Line("choice", key, idx, num, ChoiceItems(q)[i], FALSE)]
          [] key = "true_false" -> <<>>
          [] key = "short_answer" -> <<QuestionLine("answer rule", key, idx, num)>>
          [] key = "essay" -> FieldLines(q, <<"guidance">>, key, idx, num))
    \o <<QuestionLine("blank", key, idx, num)>>

\* `if choice == q.get('correct_answer')`
ChoiceMarkedFirst(choice, q) == choice = LetterOrder[1]

ChoiceMarked(choice, q) == choice = q.correct_answer

\* format_answers_for_display: the lines of one question
answer_question_lines(key, q, idx, num) ==
    <<QuestionLine("question", key, idx, num)>>
    \o (CASE key = "multiple_choice" ->
                [i \in 1..Len(ChoiceItems(q)) |->
                    Line("choice", key, idx, num, ChoiceItems(q)[i],
                         ChoiceMarked(ChoiceItems(q)[i], q))]
                \o FieldLines(q, <<"explanation">>, key, idx, num)
          [] key = "true_false" ->
                <<QuestionLine("correct answer", key, idx, num)>>
                \o FieldLines(q, <<"explanation">>, key, idx, num)
          [] key = "short_answer" ->
                FieldLines(q, <<"sample_answer", "key_points">>, key, idx, num)
          [] key = "essay" ->
                FieldLines(q, <<"key_points", "sample_outline", "guidance">>, key, idx, num))
    \o <<QuestionLine("blank", key, idx, num)>>

\* the number of the first question of a section: question_num is set to 1
\* once, before the loop over the sections
FirstNumberRestarts(question_num) == 1

FirstNumber(question_num) == question_num

RECURSIVE RenderQuestions(_, _, _, _, _, _)
\* `for q in section.get("questions", [])`, from question i on; with_answers
\* tells the answer key from the questions-only rendering
RenderQuestions(key, items, i, question_num, with_answers, output) ==
    IF i > Len(items)
    THEN [raised |-> FALSE, output |-> output, question_num |-> question_num]
    ELSE IF QuestionRaises(key, items[i])
    THEN [raised |-> TRUE, output |-> <<>>, question_num |-> question_num]
    ELSE RenderQuestions(key, items, i + 1, question_num + 1, with_answers,
             output \o (IF with_answers
                        THEN answer_question_lines(key, items[i], i, question_num)
                        ELSE exam_question_lines(key, items[i], i, question_num)))

RECURSIVE RenderSections(_, _, _, _, _)
\* `for section_key, section in exam.get("sections", {}).items()`, from section s on
RenderSections(sections, s, question_num, with_answers, output) ==
    IF s > Len(sections) THEN [raised |-> FALSE, output |-> output]
    ELSE LET key == sections[s].key
             head == IF with_answers
                     THEN <<SectionLine("section title", key)>>
                     ELSE <<SectionLine("section title", key),
                            SectionLine("section instructions", key)>>
             r == RenderQuestions(key, sections[s].questions.items, 1,
                                  FirstNumber(question_num), with_answers, output \o head)
         IN  IF r.raised THEN [raised |-> TRUE, output |-> <<>>]
             ELSE RenderSections(sections, s + 1, r.question_num, with_answers,
                                 r.output \o <<SectionLine("section rule", key)>>)

\* format_exam_for_display(exam), for an exam without 'error'
format_exam_for_display(exam) ==
    RenderSections(exam.sections, 1, 1, FALSE,
        <<HeaderLine("title"), HeaderLine("instructions"),
          HeaderLine("total questions"), HeaderLine("rule")>>)

\* format_answers_for_display(exam), for an exam without 'error'
format_answers_for_display(exam) ==
    RenderSections(exam.sections, 1, 1, TRUE,
        <<HeaderLine("title"), HeaderLine("subtitle"),
          HeaderLine("total questions"), HeaderLine("rule")>>)

(***************************************************************************)
(* The context generate_exam gathers.  rag_system.get_relevant_context is  *)
(* answered from a bounded set of strings here.                            *)
(***************************************************************************)
CommonTerms ==
    {<<"N", "D", "T">>,
     <<"n", "o", "n", "-", "d", "e", "s", "t", "r", "u", "c", "t", "i", "v", "e">>,
     <<"t", "e", "s", "t", "i", "n", "g">>,
     <<"u", "l", "t", "r", "a", "s", "o", "n", "i", "c">>,
     <<"r", "a", "d", "i", "o", "g", "r", "a", "p", "h", "i", "c">>,
     <<"m", "a", "g", "n", "e", "t", "i", "c", " ", "p", "a", "r", "t", "i", "c", "l", "e">>,
     <<"p", "e", "n", "e", "t", "r", "a", "n", "t">>,
     <<"e", "d", "d", "y", " ", "c", "u", "r", "r", "e", "n", "t">>,
     <<"v", "i", "s", "u", "a", "l", " ", "i", "n", "s", "p", "e", "c", "t", "i", "o", "n">>}
TechnicalMarker == <<"\n", "\n", "=", "=", "=", " ", "T", "E", "C", "H", "N", "I", "C", "A", "L", " ", "C", "O", "N", "T", "E", "N", "T", " ", "S", "E", "C", "T", "I", "O", "N", " ", "=", "=", "=", "\n", "\n">>
MinContextChars == 100     \* len(context.strip()) < 100
TopicalQueries == 4        \* len(context_queries)

SampleContexts ==
    {<<>>, Rep("t", 20), <<"u", "l", "t", "r", "a", "s", "o", "n", "i", "c", " ", "t", "e", "s", "t", "i", "n", "g", " ">> \o Rep("t", 10)}
PromptContextChars == 3500 \* {context[:3500]} in each section prompt
\* what one context query returns: nothing, a short passage, or a passage
\* that alone fills the context of a section prompt
ContextChunks ==
    {<<>>,
     LabelOpen \o <<"a">> \o LabelClose \o EscapedNewline \o Rep("t", 20),
     LabelOpen \o <<"b">> \o LabelClose \o EscapedNewline \o Rep("t", PromptContextChars)}

subject_keywords(sample_context) ==
    IF sample_context = <<>> THEN {}
    ELSE {term \in CommonTerms : Contains(Lower(sample_context), Lower(term))}

\* the answers of the context queries: only the first query asked may return
\* the long passage
ContextAnswers ==
    {answers \in [1..(TopicalQueries + 1) -> ContextChunks] :
        \A i \in 2..(TopicalQueries + 1) : Len(answers[i]) < PromptContextChars}

\* the non-empty answers to the first n queries, in order
all_context(answers, n) == SelectSeq(SubSeq(answers, 1, n), LAMBDA c : c # <<>>)

\* "...SECTION ===\n\n".join(all_context) if all_context else None
combined_context(parts) == Join(parts, TechnicalMarker)

\* `if not context or len(context.strip()) < 100` with any context at all
insufficient_never(parts) == parts = <<>>

\* if not context or len(context.strip()) < 100:
insufficient(parts) ==
    parts = <<>> \/ Len(strip(combined_context(parts))) < MinContextChars

\* the number of characters of the combined context before its j-th part
RECURSIVE PartStart(_, _)
PartStart(parts, j) ==
    IF j = 1 THEN 0
    ELSE PartStart(parts, j - 1) + Len(parts[j - 1]) + Len(TechnicalMarker)

\* {context[:3500]}: the parts of which the prompt holds at least one character
prompt_parts(parts) == {j \in 1..Len(parts) : PartStart(parts, j) < PromptContextChars}

(***************************************************************************)
(* One exam request, step by step: StudyChatbot.generate_exam checks the   *)
(* tracked documents and gathers the context, generate_complete_exam asks  *)
(* the model for each requested kind in turn, then the exam is totalled,   *)
(* rendered and returned.  A behaviour holds one request.                  *)
(***************************************************************************)

NoExam == [title |-> "none"]     \* generate_complete_exam has not returned

Failure(error) == [returned |-> TRUE, success |-> FALSE, error |-> error]
Success(exam) ==
    [returned |-> TRUE, success |-> TRUE, exam |-> exam,
     formatted_exam |-> format_exam_for_display(exam).output,
     formatted_answers |-> format_answers_for_display(exam).output]

DocumentSets == {{}, {"a.pdf"}}

InitExam ==
    /\ \E docs \in DocumentSets : Tracked(docs)
    /\ exam_run = NoRun
    /\ exam_result = NoResult
    /\ index = <<>>
    /\ call = NoCall
    /\ ov = OvIdle
    /\ pdf = NoPdf
    /\ NoChat

\* chatbot.generate_exam(exam_config), up to the check of the tracked
\* documents, for a request out of `configs`
GenerateExamFor(configs) ==
    /\ exam_run.pc = "idle"
    /\ exam_result = NoResult
    /\ \E exam_config \in configs :
           IF uploaded_documents = {}
           THEN /\ exam_result' = Failure("No documents uploaded")
                /\ UNCHANGED exam_run
           ELSE /\ exam_run' = [pc |-> "context", exam_config |-> exam_config,
                                parts |-> 0, context_chars |-> 0, prompt_parts |-> 0,
                                sections |-> <<>>, outputs |-> <<>>, exam |-> NoExam]
                /\ UNCHANGED exam_result
    /\ UNCHANGED <<trackvars, ctxvars, chunkvars, chatvars>>

GenerateExam == GenerateExamFor(ExamConfigs)

\* the sample query, the four or five context queries and the check of the
\* combined context; with enough context generate_complete_exam is entered
GatherContext ==
    /\ exam_run.pc = "context"
    /\ \E sample_context \in SampleContexts :
       \E answers \in ContextAnswers :
           LET queries == IF subject_keywords(sample_context) # {}
                          THEN TopicalQueries + 1 ELSE TopicalQueries
               parts == all_context(answers, queries)
               gathered == [exam_run EXCEPT
                               !.parts = Len(parts),
                               !.context_chars = Len(strip(combined_context(parts))),
                               !.prompt_parts = Cardinality(prompt_parts(parts))]
           IN  IF insufficient(parts)
               THEN /\ exam_result' = Failure("Could not extract sufficient content")
                    /\ exam_run' = [gathered EXCEPT !.pc = "done"]
               ELSE /\ exam_run' = [gathered EXCEPT !.pc = Kinds[1]]
                    /\ UNCHANGED exam_result
    /\ UNCHANGED <<trackvars, ctxvars, chunkvars, chatvars>>

\* the position after the section of `kind`
AfterKind(kind) ==
    LET i == CHOOSE j \in 1..Len(Kinds) : Kinds[j] = kind
    IN  IF i < Len(Kinds) THEN Kinds[i + 1] ELSE "total"

\* generate_complete_exam: one `if exam_config.get(kind, 0) > 0:` block
GenerateSection ==
    /\ exam_run.pc \in KindSet
    /\ LET kind == exam_run.pc
       IN  IF ConfigCount(exam_run.exam_config, kind) > 0
           THEN \E output \in ModelOutputs(kind) :
                    LET questions == generate_questions(output)
                    IN  exam_run' =
                            [exam_run EXCEPT
                                !.pc = AfterKind(kind),
                                !.outputs = Append(@, [kind |-> kind, output |-> output]),
                                !.sections = IF SectionKept(questions)
                                             THEN Append(@, [key |-> kind, questions |-> questions])
                                             ELSE @]
           ELSE exam_run' = [exam_run EXCEPT !.pc = AfterKind(kind)]
    /\ UNCHANGED <<trackvars, exam_result, ctxvars, chunkvars, chatvars>>

\* generate_complete_exam totals and returns the exam; generate_exam renders
\* it and returns
ReturnExam ==
    /\ exam_run.pc = "total"
    /\ LET exam == [title |-> "AI-Generated Practice Exam",
                    sections |-> exam_run.sections,
                    total_questions |-> total_questions(exam_run.sections)]
       IN  /\ exam_result' =
                  IF exam.sections # <<>>
                  THEN IF FormatRaises(exam) THEN Failure("exception") ELSE Success(exam)
                  ELSE Failure("Failed to generate exam questions")
       /\ exam_run' = [exam_run EXCEPT !.pc = "done", !.exam = exam]
    /\ UNCHANGED <<trackvars, ctxvars, chunkvars, chatvars>>

NextExam ==
    \/ GenerateExam
    \/ GatherContext
    \/ GenerateSection
    \/ ReturnExam

SpecExam == InitExam /\ [][NextExam]_vars

(***************************************************************************)
(* Properties of exam generation (specification SpecExam).                 *)
(***************************************************************************)
\* generate_complete_exam has returned its exam
ExamBuilt == exam_run.pc = "done" /\ exam_run.exam # NoExam

\* the model was called for the section of `kind`, and what it answered
Called(kind) == \E i \in 1..Len(exam_run.outputs) : exam_run.outputs[i].kind = kind
OutputOf(kind) ==
    exam_run.outputs[CHOOSE i \in 1..Len(exam_run.outputs) : exam_run.outputs[i].kind = kind].output

\* the kinds of the sections of the exam, in order
SectionKeys(exam) == [s \in 1..Len(exam.sections) |-> exam.sections[s].key]

\* the number of questions the exam holds for `kind`: 0 without a section
QuestionsOf(exam, kind) ==
    IF \E s \in 1..Len(exam.sections) : exam.sections[s].key = kind
    THEN Len(exam.sections[CHOOSE s \in 1..Len(exam.sections) :
                               exam.sections[s].key = kind].questions.items)
    ELSE 0

\* the output is an array of one or more questions that follow the prompt
WellFormed(kind, output) ==
    /\ output.outcome = "json"
    /\ output.type = "array"
    /\ Len(output.items) > 0
    /\ \A i \in 1..Len(output.items) : output.items[i] = GoodItem(kind)

\* the generator fails on the output: it is not JSON, or not a JSON value
\* that has a length
Malformed(output) ==
    \/ output.outcome = "text"
    \/ output.outcome = "json" /\ output.type = "scalar"

OtherKinds == SelectSeq(Kinds, LAMBDA kind : kind # "multiple_choice")

MalformedMultipleChoiceOnly ==
    /\ ExamBuilt
    /\ Called("multiple_choice")
    /\ Malformed(OutputOf("multiple_choice"))
    /\ \E i \in 1..Len(OtherKinds) : Called(OtherKinds[i])
    /\ \A i \in 1..Len(OtherKinds) :
           Called(OtherKinds[i]) => WellFormed(OtherKinds[i], OutputOf(OtherKinds[i]))

\* C6: when the multiple-choice generator fails on a malformed output and the
\* generators of the other requested kinds succeed, the exam holds the
\* sections of the other requested kinds, in order, and no multiple_choice
\* section, total_questions counts the questions of the other sections only,
\* and generate_exam reports success with that exam.
C6_MalformedMultipleChoiceDropped ==
    MalformedMultipleChoiceOnly =>
        /\ SectionKeys(exam_run.exam) = SelectSeq(OtherKinds, Called)
        /\ \A s \in 1..Len(exam_run.exam.sections) :
               exam_run.exam.sections[s].questions = OutputOf(exam_run.exam.sections[s].key)
        /\ exam_run.exam.total_questions =
               QuestionsOf(exam_run.exam, "true_false")
                   + QuestionsOf(exam_run.exam, "short_answer")
                   + QuestionsOf(exam_run.exam, "essay")
        /\ exam_result = Success(exam_run.exam)

\* C6 witness: the multiple-choice output was not JSON, two other kinds were
\* requested and answered well, and the exam was returned.
C6_Witness ==
    /\ MalformedMultipleChoiceOnly
    /\ OutputOf("multiple_choice") = NotJson
    /\ Called("true_false")
    /\ Called("essay")
    /\ exam_result.success

\* C7 (as claimed): when a model call raised during the generation of a
\* section, generate_exam returns a failure.
C7_RaisedCallFailsRequest ==
    (/\ exam_run.pc = "done"
     /\ \E i \in 1..Len(exam_run.outputs) : exam_run.outputs[i].output = Raised)
        => ~exam_result.success

\* C8 (as claimed): once generate_complete_exam has returned, generate_exam
\* reports success exactly when the exam has one section or more.
C8_SuccessIffSectionSurvives ==
    ExamBuilt => (exam_result.success <=> Len(exam_run.exam.sections) >= 1)

\* the question follows the contract of its kind
ValidQuestion(kind, q) ==
    /\ q.object
    /\ q.fields = ContractFields(kind)
    /\ kind = "multiple_choice" =>
           /\ q.choices_type = "object"
           /\ q.choices = ChoiceLetters
           /\ q.correct_answer \in q.choices

\* C9 (as claimed): every section of a returned exam is an array of
\* questions that follow the contract of its kind; a multiple-choice
\* question has the four choices A-D and a correct letter among them.
C9_SectionsValidated ==
    ExamBuilt =>
        \A s \in 1..Len(exam_run.exam.sections) :
            LET section == exam_run.exam.sections[s]
            IN  /\ section.questions.type = "array"
                /\ \A i \in 1..Len(section.questions.items) :
                       ValidQuestion(section.key, section.questions.items[i])

\* C10: total_questions of a returned exam is the sum of the numbers of
\* questions of its sections; every section holds a question or more, no
\* kind has two sections, and a kind whose generator yielded no question
\* has no section.
C10_TotalIsSumOfSections ==
    ExamBuilt =>
        /\ exam_run.exam.total_questions =
               QuestionsOf(exam_run.exam, "multiple_choice")
                   + QuestionsOf(exam_run.exam, "true_false")
                   + QuestionsOf(exam_run.exam, "short_answer")
                   + QuestionsOf(exam_run.exam, "essay")
        /\ \A s \in 1..Len(exam_run.exam.sections) :
               /\ Len(exam_run.exam.sections[s].questions.items) > 0
               /\ \A t \in 1..Len(exam_run.exam.sections) :
                      exam_run.exam.sections[s].key = exam_run.exam.sections[t].key => s = t
        /\ \A i \in 1..Len(Kinds) :
               (Called(Kinds[i]) /\ Len(generate_questions(OutputOf(Kinds[i])).items) = 0)
                   => QuestionsOf(exam_run.exam, Kinds[i]) = 0

\* C10 witness: an exam of two sections, one of two questions, returned
\* after the generator of a third requested kind yielded an empty array.
C10_Witness ==
    /\ ExamBuilt
    /\ Len(exam_run.exam.sections) = 2
    /\ exam_run.exam.total_questions = 3
    /\ \E i \in 1..Len(Kinds) : Called(Kinds[i]) /\ OutputOf(Kinds[i]) = EmptyList

\* generate_exam returned the exam with its two renderings
Rendered == exam_result.returned /\ exam_result.success

\* the lines of type `type` a rendering shows for question idx of section key
LinesOf(output, type, key, idx) ==
    SelectSeq(output, LAMBDA line : line.type = type /\ line.key = key /\ line.idx = idx)

\* the multiple-choice questions of the exam, as positions in their section,
\* whose correct letter is one of their choices
AnswerableChoices(exam) ==
    {i \in 1..QuestionsOf(exam, "multiple_choice") :
        LET q == exam.sections[1].questions.items[i]
        IN  q.correct_answer \in q.choices}

\* C11: for every multiple-choice question of a rendered exam whose correct
\* letter is one of its choices, the answer key shows one line per choice and
\* marks the line of the correct letter and no other, and the questions-only
\* rendering shows one line per choice, none of them marked, and no
\* explanation or correct-answer line at all.
C11_AnswerKeyMarksCorrectChoice ==
    Rendered =>
        /\ \A i \in AnswerableChoices(exam_result.exam) :
               LET q == exam_result.exam.sections[1].questions.items[i]
                   key_lines == LinesOf(exam_result.formatted_answers, "choice", "multiple_choice", i)
                   exam_lines == LinesOf(exam_result.formatted_exam, "choice", "multiple_choice", i)
               IN  /\ {key_lines[j].letter : j \in 1..Len(key_lines)} = q.choices
                   /\ Len(key_lines) = Cardinality(q.choices)
                   /\ \A j \in 1..Len(key_lines) :
                          key_lines[j].marked <=> key_lines[j].letter = q.correct_answer
                   /\ {exam_lines[j].letter : j \in 1..Len(exam_lines)} = q.choices
                   /\ Len(exam_lines) = Cardinality(q.choices)
                   /\ \A j \in 1..Len(exam_lines) : ~exam_lines[j].marked
        /\ \A j \in 1..Len(exam_result.formatted_exam) :
               /\ ~exam_result.formatted_exam[j].marked
               /\ exam_result.formatted_exam[j].type \notin {"explanation", "correct answer"}

\* C11 witness: a rendered exam whose second multiple-choice question has the
\* correct letter B among four choices, and whose answer key shows an
\* explanation.
C11_Witness ==
    /\ Rendered
    /\ 2 \in AnswerableChoices(exam_result.exam)
    /\ exam_result.exam.sections[1].questions.items[2].correct_answer = "B"
    /\ \E j \in 1..Len(exam_result.formatted_answers) :
           exam_result.formatted_answers[j].type = "explanation"

\* the lines of type `type` of a rendering, in order
LinesOfType(output, type) == SelectSeq(output, LAMBDA line : line.type = type)

\* the number of questions of the sections before section s of the exam
QuestionsBefore(exam, s) == SumQuestions(SubSeq(exam.sections, 1, s - 1))

\* the rendering lists the sections of the exam in order and shows one
\* question line per question, numbered 1, 2, 3, ... in the order of the exam
NumberedThrough(output, exam) ==
    LET titles == LinesOfType(output, "section title")
        questions == LinesOfType(output, "question")
    IN  /\ [s \in 1..Len(titles) |-> titles[s].key] = SectionKeys(exam)
        /\ Len(questions) = SumQuestions(exam.sections)
        /\ \A n \in 1..Len(questions) : questions[n].num = n
        /\ \A s \in 1..Len(exam.sections) :
               \A i \in 1..Len(exam.sections[s].questions.items) :
                   LET line == questions[QuestionsBefore(exam, s) + i]
                   IN  line.key = exam.sections[s].key /\ line.idx = i

\* C12: both renderings of a rendered exam list the sections in the order of
\* the exam and number the questions 1, 2, 3, ... across all sections, with
\* no restart at a section and no gap, so that a question has the same number
\* in the answer key as in the questions-only rendering.
C12_NumberedAcrossSections ==
    Rendered =>
        /\ NumberedThrough(exam_result.formatted_exam, exam_result.exam)
        /\ NumberedThrough(exam_result.formatted_answers, exam_result.exam)
        /\ LinesOfType(exam_result.formatted_exam, "question")
               = LinesOfType(exam_result.formatted_answers, "question")

\* C12 witness: a rendered exam of three sections, the first two of two
\* questions, whose last question has the number 5 in the answer key.
C12_Witness ==
    /\ Rendered
    /\ Len(exam_result.exam.sections) = 3
    /\ Len(exam_result.exam.sections[1].questions.items) = 2
    /\ Len(exam_result.exam.sections[2].questions.items) = 2
    /\ \E j \in 1..Len(exam_result.formatted_answers) :
           /\ exam_result.formatted_answers[j].type = "question"
           /\ exam_result.formatted_answers[j].num = 5
           /\ exam_result.formatted_answers[j].key = exam_result.exam.sections[3].key


\* the request asks for questions of `kind`: the count given for it is
\* greater than 0 (a request without exam_config asks for all four kinds)
Requested(kind) ==
    \/ exam_run.exam_config = NoConfig
    \/ /\ exam_run.exam_config # NoConfig
       /\ kind \in DOMAIN exam_run.exam_config
       /\ exam_run.exam_config[kind] > 0

\* the block of `kind` in generate_complete_exam has been passed
Passed(kind) ==
    \/ exam_run.pc = "total"
    \/ exam_run.pc = "done" /\ exam_run.exam # NoExam
    \/ /\ exam_run.pc \in KindSet
       /\ \E i, j \in 1..Len(Kinds) : Kinds[i] = kind /\ Kinds[j] = exam_run.pc /\ i < j

\* C19: in one generate_complete_exam request the model calls made so far
\* are one call for each requested kind whose block has been passed, in the
\* order multiple_choice, true_false, short_answer, essay: no call for a
\* kind with count 0 or no count, no second call for a kind; and when the
\* exam has been totalled every requested kind has had its call.
C19_OneCallPerRequestedKind ==
    exam_run.pc \notin {"idle", "context"} =>
        /\ [i \in 1..Len(exam_run.outputs) |-> exam_run.outputs[i].kind]
               = SelectSeq(Kinds, LAMBDA kind : Passed(kind) /\ Requested(kind))
        /\ exam_run.exam # NoExam =>
               [i \in 1..Len(exam_run.outputs) |-> exam_run.outputs[i].kind]
                   = SelectSeq(Kinds, Requested)

\* C19 witness: a request that gives true_false the count 0 and essay no
\* count was served with two calls, multiple_choice then short_answer, the
\* first of which raised, and the exam was totalled.
C19_Witness ==
    /\ ExamBuilt
    /\ exam_run.exam_config # NoConfig
    /\ DOMAIN exam_run.exam_config = {"multiple_choice", "true_false", "short_answer"}
    /\ exam_run.exam_config["true_false"] = 0
    /\ Len(exam_run.outputs) = 2
    /\ exam_run.outputs[1] = [kind |-> "multiple_choice", output |-> Raised]
    /\ exam_run.outputs[2].kind = "short_answer"

\* C16 (as claimed): no exception escapes the renderings: for every exam
\* generate_complete_exam returned, format_exam_for_display and
\* format_answers_for_display return their text.
C16_RenderingsNeverRaise ==
    ExamBuilt =>
        /\ ~format_exam_for_display(exam_run.exam).raised
        /\ ~format_answers_for_display(exam_run.exam).raised

\* the context queries of the request have been answered
Gathered == exam_run.pc \notin {"idle", "context"}

\* C23: when the combined context of a request has fewer than 100 characters
\* after trimming, generate_exam returns the failure "Could not extract
\* sufficient content", the exam generator is never entered and the model
\* is never called.
C23_ThinContextFailsBeforeGeneration ==
    (Gathered /\ exam_run.context_chars < MinContextChars) =>
        /\ exam_run.pc = "done"
        /\ exam_result = Failure("Could not extract sufficient content")
        /\ exam_run.outputs = <<>>
        /\ exam_run.exam = NoExam

\* C23 witness: two queries returned a passage, the combined context has 99
\* characters, and the request failed.
C23_Witness ==
    /\ Gathered
    /\ exam_run.parts = 2
    /\ exam_run.context_chars = MinContextChars - 1
    /\ exam_result = Failure("Could not extract sufficient content")

\* C24 (as claimed): whenever the model is called for a section, the context
\* of the prompt, context[:3500], holds content of every sub-context that
\* returned content.
C24_PromptHoldsEverySubContext ==
    (Gathered /\ exam_run.outputs # <<>>) => exam_run.prompt_parts = exam_run.parts

\* C27 (as claimed): for every short-answer question of a rendered exam whose
\* fields are the ones the short-answer prompt asks the model for, the answer
\* key shows a sample-answer line and a key-points line.
C27_AnswerKeyShowsSampleAnswer ==
    Rendered =>
        \A s \in 1..Len(exam_result.exam.sections) :
            LET section == exam_result.exam.sections[s]
            IN  section.key = "short_answer" =>
                    \A i \in 1..Len(section.questions.items) :
                        LET q == section.questions.items[i]
                        IN  (q.object /\ q.fields = ContractFields("short_answer")) =>
                                /\ LinesOf(exam_result.formatted_answers, "sample_answer",
                                           "short_answer", i) # <<>>
                                /\ LinesOf(exam_result.formatted_answers, "key_points",
                                           "short_answer", i) # <<>>

(***************************************************************************)
(* Question answering: RAGSystem.ask_question and StudyChatbot.ask_question,*)
(* clear_chat_history and reset_system.  get_chatbot returns one instance  *)
(* per process (get_chatbot._instance) and get_or_create_chatbot stores it *)
(* in every session, so chat_history is the list of that one instance and  *)
(* every session asks through it.  A question is its text, tagged with the *)
(* session that asked it and its number n in the behaviour (the questions  *)
(* asked before the initial state have n <= 0).                            *)
(***************************************************************************)
MaxAsk == 2              \* ask_question calls in one behaviour
ChatDocs == 11           \* passages of the index when documents are uploaded
max_history_length == 10 \* settings.max_history_length
HistoryWindow == 5       \* chat_history[-5:]
OverviewMaxTokens == 4000    \* get_document_overview(max_tokens=4000)
SpecificMaxTokens == 3000    \* get_relevant_context(question, max_tokens=3000)
SpecificK == 10              \* self.similarity_search(query, k=10)

overview_keywords ==
    <<<<"w", "h", "a", "t", " ", "i", "s">>,
      <<"t", "e", "l", "l", " ", "m", "e", " ", "a", "b", "o", "u", "t">>,
      <<"d", "e", "s", "c", "r", "i", "b", "e">>,
      <<"o", "v", "e", "r", "v", "i", "e", "w">>,
      <<"s", "u", "m", "m", "a", "r", "y">>,
      <<"a", "b", "o", "u", "t", " ", "t", "h", "e", " ", "f", "i", "l", "e">>,
      <<"c", "o", "n", "t", "e", "n", "t", " ", "o", "f">>,
      <<"m", "a", "i", "n", " ", "t", "o", "p", "i", "c">>,
      <<"w", "h", "a", "t", " ", "d", "o", "e", "s">>,
      <<"e", "x", "p", "l", "a", "i", "n", " ", "t", "h", "e", " ", "d", "o", "c", "u", "m", "e", "n", "t">>,
      <<"d", "o", "c", "u", "m", "e", "n", "t", " ", "a", "l", "l", " ", "a", "b", "o", "u", "t">>,
      <<"s", "u", "m", "m", "a", "r", "i", "z", "e">>,
      <<"w", "h", "a", "t", " ", "d", "o", "e", "s", " ", "t", "h", "i", "s", " ", "c", "o", "v", "e", "r">>,
      <<"m", "a", "i", "n", " ", "s", "u", "b", "j", "e", "c", "t">>,
      <<"w", "h", "a", "t", " ", "a", "r", "e", " ", "w", "e", " ", "l", "e", "a", "r", "n", "i", "n", "g">>,
      <<"c", "o", "u", "r", "s", "e", " ", "c", "o", "n", "t", "e", "n", "t">>,
      <<"l", "e", "c", "t", "u", "r", "e", " ", "a", "b", "o", "u", "t">>>>

\* any(keyword in question.lower() for keyword in overview_keywords)
is_overview_question(text) ==
    \E i \in 1..Len(overview_keywords) : Contains(Lower(text), overview_keywords[i])

QuestionTexts ==
    {<<"S", "U", "M", "M", "A", "R", "I", "Z", "E", " ", "i", "t">>,
     <<"W", "h", "y", " ", "w", "e", "l", "d", "?">>}

Question(session, n, text) == [session |-> session, n |-> n, text |-> text]

\* the bundle of a retrieval that found nothing or failed: the empty string
NoBundle == [docs |-> <<>>, entries |-> <<>>, out |-> <<>>]

RECURSIVE IntroLoop(_, _, _)
\* the loop over intro_queries from query q on, with what the index answers
\* to each; <<overview_docs, seen_content>>, or the raise of a search
IntroLoop(intro, q, acc) ==
    IF q > IntroQueries THEN [raised |-> FALSE, acc |-> acc]
    ELSE IF intro[q].raised THEN [raised |-> TRUE, acc |-> acc]
    ELSE LET found == CollectUnseen(intro[q].docs, 1, acc, FALSE)
         IN  IF Len(found[1]) >= OverviewLimit THEN [raised |-> FALSE, acc |-> found]
             ELSE IntroLoop(intro, q + 1, found)

\* whether get_document_overview asks for the general content
AsksGeneral(intro) ==
    LET r == IntroLoop(intro, 1, <<<<>>, {}>>)
    IN  ~r.raised /\ Len(r.acc[1]) < OverviewMinimum

\* get_document_overview(max_tokens), given what the index answers to the
\* intro queries and to the query for the general content
get_document_overview(max_tokens, intro, general) ==
    LET r == IntroLoop(intro, 1, <<<<>>, {}>>)
    IN  IF r.raised THEN NoBundle
        ELSE IF Len(r.acc[1]) < OverviewMinimum
        THEN IF general.raised THEN NoBundle
             ELSE build_overview(CollectUnseen(general.docs, 1, r.acc, TRUE)[1], max_tokens)
        ELSE build_overview(r.acc[1], max_tokens)

RECURSIVE SplitLiteral(_, _)
\* s.split(sep), for a separator of one character or more
SplitLiteral(s, sep) ==
    LET p == FirstAt(s, sep, 1)
    IN  IF p = 0 THEN <<s>>
        ELSE <<SubSeq(s, 1, p - 1)>> \o SplitLiteral(SubSeq(s, p + Len(sep), Len(s)), sep)

RECURSIVE CollectSources(_, _, _)
\* the loop over the lines of the context: line[7:-1] of every line that
\* starts with "[From: " and ends with "]", once each
CollectSources(lines, i, sources) ==
    IF i > Len(lines) THEN sources
    ELSE LET line == lines[i]
             labelled == /\ Take(line, Len(LabelOpen)) = LabelOpen
                         /\ Len(line) > 0 /\ line[Len(line)] = LabelClose[1]
             source == SubSeq(line, Len(LabelOpen) + 1, Len(line) - 1)
         IN  IF labelled /\ \A j \in 1..Len(sources) : sources[j] # source
             THEN CollectSources(lines, i + 1, Append(sources, source))
             ELSE CollectSources(lines, i + 1, sources)

\* the sources ask_question extracts: context.split("\\n") splits at the two
\* characters backslash and n
extract_sources(context) == CollectSources(SplitLiteral(context, EscapedNewline), 1, <<>>)

NoQuestion == Question("", 0, <<>>)

SystemMessage(overview, context) ==
    [role |-> "system", prompt |-> IF overview THEN "overview" ELSE "specific",
     context |-> context, question |-> NoQuestion, answer |-> ""]
UserMessage(question) ==
    [role |-> "user", prompt |-> "", context |-> <<>>, question |-> question, answer |-> ""]
AssistantMessage(answer) ==
    [role |-> "assistant", prompt |-> "", context |-> <<>>, question |-> NoQuestion,
     answer |-> answer]

\* chat_history[:5], the oldest turns
OldestTurns(history, n) == SubSeq(history, 1, Min(n, Len(history)))

\* chat_history[-5:]
LastTurns(history, n) ==
    SubSeq(history, IF Len(history) > n THEN Len(history) - n + 1 ELSE 1, Len(history))

RECURSIVE HistoryMessages(_)
\* a user and an assistant message per turn
HistoryMessages(turns) ==
    IF Len(turns) = 0 THEN <<>>
    ELSE <<UserMessage(turns[1].question), AssistantMessage(turns[1].answer)>>
             \o HistoryMessages(Tail(turns))

\* the messages of the model call
build_messages(overview, context, history, question) ==
    <<SystemMessage(overview, context)>>
        \o HistoryMessages(LastTurns(history, HistoryWindow))
        \o <<UserMessage(question)>>

\* `if not context:` with the test dropped
NoContextNever(context) == FALSE

\* `if not context:`
NoContext(context) == context = <<>>

FixedMessage == "I couldn't find relevant information in your uploaded documents"
ErrorMessage == "I encountered an error while processing your question"
ModelAnswer == "answer of the model"

NoResponse == [answer |-> "", sources |-> <<>>, has_context |-> FALSE, error |-> FALSE]
Response(answer, sources, has_context, error) ==
    [answer |-> answer, sources |-> sources, has_context |-> has_context, error |-> error]

\* chat_entry
Turn(question, response) ==
    [question |-> question, answer |-> response.answer, sources |-> response.sources,
     has_context |-> response.has_context]

\* the turns before the initial state: questions of "tab 1", answered by
\* the model when documents were uploaded and by the fixed message when not
PriorTurn(n, answered) ==
    Turn(Question("tab 1", n, <<"W", "h", "y", " ", "w", "e", "l", "d", "?">>),
         IF answered THEN Response(ModelAnswer, <<>>, TRUE, FALSE)
         ELSE Response(FixedMessage, <<>>, FALSE, FALSE))
PriorHistory(h, answered) == [i \in 1..h |-> PriorTurn(i - h, answered)]

\* what the index answers to the scored fetch of a question: a failure, no
\* relevant candidate, or only relevant candidates
ChatScored(k) ==
    {a \in ScoredAnswers(2 * k) :
        \/ a.raised
        \/ \A i \in 1..Len(a.docs) : a.docs[i].doc = index[i] /\ a.docs[i].score < RelevanceThreshold
        \/ \A i \in 1..Len(a.docs) : a.docs[i].doc = index[i] /\ a.docs[i].score > RelevanceThreshold}

\* what the index answers to an unscored search of k: a failure, or the
\* first k passages in stored order
ChatSearch(k) == {a \in SearchAnswers(k) : a.raised \/ a.docs = Take(index, k)}

\* the same search answers every intro query
IntroAnswers == {[q \in 1..IntroQueries |-> a] : a \in ChatSearch(5)}
GeneralAnswers(intro) == IF AsksGeneral(intro) THEN ChatSearch(10) ELSE {Answer(<<>>)}
RefetchAnswers(k, fetched) == IF Refetched(k, fetched) THEN ChatSearch(k) ELSE {Answer(<<>>)}

\* the number of candidates of a scored answer above the threshold
RelevantCount(fetched) ==
    Cardinality({i \in 1..Len(fetched.docs) : fetched.docs[i].score > RelevanceThreshold})

\* the retrievals one question may come to: the searches made (k, whether
\* the first search failed, how many candidates it fetched and how many of
\* them are relevant) and the bundle
Retrievals(overview) ==
    IF overview
    THEN {[op |-> "get_document_overview", k |-> 5, raised |-> intro[1].raised,
           fetched |-> Len(intro[1].docs), relevant |-> 0,
           bundle |-> get_document_overview(OverviewMaxTokens, intro, general)] :
              <<intro, general>> \in
                  {<<i, g>> \in IntroAnswers \X ({Answer(<<>>)} \cup ChatSearch(10)) :
                      g \in GeneralAnswers(i)}}
    ELSE {[op |-> "get_relevant_context", k |-> SpecificK, raised |-> fetched.raised,
           fetched |-> Len(fetched.docs), relevant |-> RelevantCount(fetched),
           bundle |-> get_relevant_context(SpecificMaxTokens, fetched, refetch)] :
              <<fetched, refetch>> \in
                  {<<f, r>> \in ChatScored(SpecificK) \X ({Answer(<<>>)} \cup ChatSearch(SpecificK)) :
                      r \in RefetchAnswers(SpecificK, f)}}

InitChat ==
    /\ \E docs \in DocumentSets :
           /\ Tracked(docs)
           /\ index = IF docs = {} THEN <<>> ELSE [i \in 1..ChatDocs |-> i]
    /\ \E h \in {0, max_history_length - 1, max_history_length} :
           /\ chat_history = PriorHistory(h, uploaded_documents # {})
           /\ appended = PriorHistory(h, uploaded_documents # {})
    /\ sessions = [s \in Sessions |-> IdleSession]
    /\ asked = 0
    /\ call = NoCall
    /\ ov = OvIdle
    /\ pdf = NoPdf
    /\ exam_run = NoRun
    /\ exam_result = NoResult

\* a session is inside ask_question
InFlight(s) == sessions[s].pc \in {"calling", "evict"}

\* chatbot.ask_question(question) up to the model call: the retrieval, the
\* test of the context and the messages built from the history as it stands;
\* without context the fixed response is returned to the chatbot, which
\* appends the turn
AskQuestion(s) ==
    /\ ~InFlight(s)
    /\ asked < MaxAsk
    /\ asked' = asked + 1
    /\ \E text \in QuestionTexts :
       \E retrieval \in Retrievals(is_overview_question(text)) :
           LET question == Question(s, asked + 1, text)
               context == retrieval.bundle.out
               called == [pc |-> "calling", question |-> question,
                          overview |-> is_overview_question(text),
                          retrieval |-> retrieval, context |-> context,
                          invoked |-> FALSE, messages |-> <<>>, response |-> NoResponse]
           IN  IF NoContext(context)
               THEN LET response == Response(FixedMessage, <<>>, FALSE, FALSE)
                    IN  /\ sessions' = [sessions EXCEPT ![s] =
                                [called EXCEPT !.pc = "evict", !.response = response]]
                        /\ chat_history' = Append(chat_history, Turn(question, response))
                        /\ appended' = Append(appended, Turn(question, response))
               ELSE /\ sessions' = [sessions EXCEPT ![s] =
                            [called EXCEPT !.invoked = TRUE,
                                !.messages = build_messages(is_overview_question(text),
                                                 context, chat_history, question)]]
                    /\ UNCHANGED <<chat_history, appended>>
    /\ UNCHANGED <<ctxvars, chunkvars, examvars>>

\* openai.chat.completions.create returns or raises; RAGSystem.ask_question
\* returns its result and the chatbot appends the turn
ModelAnswers(s) ==
    /\ sessions[s].pc = "calling"
    /\ \E raised \in BOOLEAN :
           LET response == IF raised THEN Response(ErrorMessage, <<>>, FALSE, TRUE)
                           ELSE Response(ModelAnswer, extract_sources(sessions[s].context),
                                         TRUE, FALSE)
               turn == Turn(sessions[s].question, response)
           IN  /\ sessions' = [sessions EXCEPT ![s].pc = "evict", ![s].response = response]
               /\ chat_history' = Append(chat_history, turn)
               /\ appended' = Append(appended, turn)
    /\ UNCHANGED <<asked, ctxvars, chunkvars, examvars>>

\* `if len(self.chat_history) > settings.max_history_length:` with the newest
\* turn dropped
evict_newest(history) ==
    IF Len(history) > max_history_length THEN SubSeq(history, 1, Len(history) - 1)
    ELSE history

\* if len(self.chat_history) > settings.max_history_length: self.chat_history.pop(0)
evict(history) ==
    IF Len(history) > max_history_length THEN Tail(history) ELSE history

\* the length check after the append, and the return of ask_question
Evict(s) ==
    /\ sessions[s].pc = "evict"
    /\ chat_history' = evict(chat_history)
    /\ sessions' = [sessions EXCEPT ![s].pc = "returned"]
    /\ UNCHANGED <<appended, asked, ctxvars, chunkvars, examvars>>

\* chatbot.clear_chat_history()
ClearChatHistory ==
    /\ chat_history' = <<>>
    /\ appended' = <<>>
    /\ UNCHANGED <<sessions, asked, ctxvars, chunkvars, examvars>>

\* chatbot.reset_system(): the history and the tracked documents are emptied,
\* then rag_system.reset_database() deletes the collection, or fails to
\* reset_system that empties the history and the tracking only when the index
\* was reset
ResetSystemAllOrNothing ==
    /\ \E deleted, recreated \in BOOLEAN :
           /\ index' = IF deleted THEN <<>> ELSE index
           /\ last_return' = [op |-> "reset_system", success |-> recreated]
           /\ IF recreated
              THEN /\ chat_history' = <<>>
                   /\ appended' = <<>>
                   /\ uploaded_documents' = {}
                   /\ uploads' = 0
              ELSE UNCHANGED <<chat_history, appended, uploaded_documents, uploads>>
    /\ UNCHANGED <<sessions, asked, call, ov, chunkvars, exam_run, exam_result>>

\* chatbot.reset_system(): the history and the tracked documents are emptied,
\* then rag_system.reset_database() deletes the collection, or fails to, and
\* creates the vector store anew, which returns True, or fails to, which
\* returns False
ResetSystem ==
    /\ chat_history' = <<>>
    /\ appended' = <<>>
    /\ uploaded_documents' = {}
    /\ uploads' = 0
    /\ \E deleted, recreated \in BOOLEAN :
           /\ index' = IF deleted THEN <<>> ELSE index
           /\ last_return' = [op |-> "reset_system", success |-> recreated]
    /\ UNCHANGED <<sessions, asked, call, ov, chunkvars, exam_run, exam_result>>

NextChat ==
    \/ \E s \in Sessions : AskQuestion(s)
    \/ \E s \in Sessions : ModelAnswers(s)
    \/ \E s \in Sessions : Evict(s)
    \/ ClearChatHistory
    \/ ResetSystem

SpecChat == InitChat /\ [][NextChat]_vars

(***************************************************************************)
(* The tracked documents over the life of a chatbot: upload_pdf,           *)
(* reset_system and then one generate_exam, called one after the other on  *)
(* a chatbot that was just created.  An upload that succeeds stores one    *)
(* passage.                                                                *)
(***************************************************************************)
MaxUploads == 2          \* uploads since the last reset, and passages stored, at most
UploadFiles == {"a.pdf", "b.pdf"}
TrackConfigs == {[kind \in {"true_false"} |-> RequestedCount]}

\* upload_pdf that tracks the file whatever add_pdf returned
UploadPdfAlwaysTracks ==
    /\ Len(index) < MaxUploads
    /\ uploads < MaxUploads
    /\ \E file \in UploadFiles, added \in BOOLEAN :
           /\ uploaded_documents' = uploaded_documents \cup {file}
           /\ uploads' = IF added THEN uploads + 1 ELSE uploads
           /\ index' = IF added THEN Append(index, Len(index) + 1) ELSE index
           /\ last_return' = [op |-> "upload_pdf", success |-> added]
    /\ call' = NoCall
    /\ UNCHANGED <<ov, chunkvars, exam_run, exam_result, chatvars>>

\* chatbot.upload_pdf(pdf_path): the file is rejected (not found, not a
\* readable PDF, too large), or add_pdf returns False or raises, or add_pdf
\* stores the passages and the file is tracked; add_documents may empty the
\* collection before it stores (embedding dimension mismatch)
UploadPdf ==
    /\ Len(index) < MaxUploads
    /\ uploads < MaxUploads
    /\ \E file \in UploadFiles, outcome \in {"rejected", "not added", "added"},
          emptied \in BOOLEAN :
           LET stored == IF emptied /\ outcome # "rejected" THEN <<>> ELSE index
           IN  IF outcome = "added"
               THEN /\ index' = Append(stored, Len(stored) + 1)
                    /\ uploaded_documents' = uploaded_documents \cup {file}
                    /\ uploads' = uploads + 1
                    /\ last_return' = [op |-> "upload_pdf", success |-> TRUE]
               ELSE /\ index' = stored
                    /\ last_return' = [op |-> "upload_pdf", success |-> FALSE]
                    /\ UNCHANGED <<uploaded_documents, uploads>>
    /\ call' = NoCall
    /\ UNCHANGED <<ov, chunkvars, exam_run, exam_result, chatvars>>

InitTrack ==
    /\ Tracked({})
    /\ index = <<>>
    /\ call = NoCall
    /\ ov = OvIdle
    /\ pdf = NoPdf
    /\ exam_run = NoRun
    /\ exam_result = NoResult
    /\ NoChat

\* generate_exam has not been called yet
BeforeExam == exam_run.pc = "idle" /\ exam_result = NoResult

NextTrack ==
    \/ BeforeExam /\ UploadPdf
    \/ BeforeExam /\ ResetSystem
    \/ GenerateExamFor(TrackConfigs)
    \/ GatherContext
    \/ GenerateSection
    \/ ReturnExam

SpecTrack == InitTrack /\ [][NextTrack]_vars

(***************************************************************************)
(* Properties of question answering (specification SpecChat).              *)
(***************************************************************************)
\* no ask_question call stands between its append and its length check
Quiescent == \A s \in Sessions : sessions[s].pc # "evict"

\* C13: whatever ask_question, clear_chat_history and reset_system calls were
\* made, the chat history is the most recently appended turns in the order
\* they were appended (what was evicted is older than everything kept), and
\* once every ask_question call has made its length check it holds at most
\* max_history_length (10) turns.
C13_HistoryBounded ==
    /\ chat_history = LastTurns(appended, Len(chat_history))
    /\ Quiescent =>
           /\ Len(chat_history) <= max_history_length
           /\ chat_history = LastTurns(appended, max_history_length)

\* C13 witness: two questions were asked on a full history and both calls
\* returned: twelve turns were appended and the history holds the last ten,
\* the newest being the second question's.
C13_Witness ==
    /\ Quiescent
    /\ Len(appended) = max_history_length + 2
    /\ Len(chat_history) = max_history_length
    /\ chat_history[max_history_length].question.n = 2
    /\ chat_history[1].question.n < 0

\* the session has asked a question, and the retrieval for it came to an
\* empty bundle
EmptyBundle(s) ==
    /\ sessions[s].pc # "idle"
    /\ sessions[s].retrieval.bundle.entries = <<>>

\* C14: when the retrieval for a question came to an empty bundle (the index
\* failing included), the model is not invoked for the question, no messages
\* are built, and the response is the fixed message with has_context false
\* and no sources; the call is never found waiting for the model.
C14_NoContextNoModelCall ==
    \A s \in Sessions :
        EmptyBundle(s) =>
            /\ sessions[s].pc \in {"evict", "returned"}
            /\ ~sessions[s].invoked
            /\ sessions[s].messages = <<>>
            /\ sessions[s].response = Response(FixedMessage, <<>>, FALSE, FALSE)

\* C14 witness: an overview question and a specific question both came to an
\* empty bundle although the index holds passages (its searches failed), and
\* both calls returned.
C14_Witness ==
    /\ index # <<>>
    /\ \A s \in Sessions : EmptyBundle(s) /\ sessions[s].pc = "returned"
    /\ \E s, t \in Sessions : sessions[s].overview /\ ~sessions[t].overview

\* the session has asked a specific question (no overview keyword in it)
AskedSpecific(s) == sessions[s].pc # "idle" /\ ~sessions[s].overview

\* C17 (as claimed): direct question answering retrieves with k = 5: the
\* context of a specific question is built from at most 5 passages chosen
\* among at most 10 fetched candidates.
C17_DirectAnswersWithFive ==
    \A s \in Sessions :
        AskedSpecific(s) =>
            /\ sessions[s].retrieval.k = 5
            /\ sessions[s].retrieval.fetched <= 10
            /\ Len(sessions[s].retrieval.bundle.entries) <= 5

\* C17 (amended): direct question answering retrieves with k = 10, the k of
\* get_relevant_context for all its callers: 20 candidates are asked for, the
\* context is built from at most 10 passages, and when 5 or more candidates
\* are relevant the first 10 relevant ones (all, if fewer) are chosen, more
\* than 5 included.
C17_DirectAnswersWithTen ==
    \A s \in Sessions :
        AskedSpecific(s) =>
            LET retrieval == sessions[s].retrieval
            IN  /\ retrieval.k = 10
                /\ retrieval.fetched <= 20
                /\ Len(retrieval.bundle.docs) <= 10
                /\ Len(retrieval.bundle.entries) <= 10
                /\ retrieval.relevant >= 5 =>
                       Len(retrieval.bundle.docs) = Min(10, retrieval.relevant)

\* C17 witness: the index answered a specific question with 11 relevant
\* candidates, 10 passages were chosen and all of them are in the context
\* the model was called with.
C17_Witness ==
    \E s \in Sessions :
        /\ AskedSpecific(s)
        /\ sessions[s].retrieval.fetched = 11
        /\ sessions[s].retrieval.relevant = 11
        /\ Len(sessions[s].retrieval.bundle.entries) = 10
        /\ sessions[s].invoked

\* the session has called get_or_create_chatbot: it holds the instance
HoldsChatbot(s) == sessions[s].pc # "idle"

\* C18 (as claimed): the chat history is owned by the calling session: the
\* messages sent to the model for a session's question carry no question of
\* another session, the history get_chat_history returns to a session holds
\* no turn of another session, and no two sessions have a question in flight
\* on the same history at the same time.
C18_HistoryOwnedBySession ==
    /\ \A s \in Sessions :
           HoldsChatbot(s) =>
               /\ \A i \in 1..Len(sessions[s].messages) :
                      sessions[s].messages[i].role = "user"
                          => sessions[s].messages[i].question.session = s
               /\ \A i \in 1..Len(chat_history) : chat_history[i].question.session = s
    /\ \A s, t \in Sessions : InFlight(s) /\ InFlight(t) => s = t

RECURSIVE DistinctSources(_, _, _)
\* the source labels of the entries from entry i on, once each, in order of
\* first appearance
DistinctSources(entries, i, labels) ==
    IF i > Len(entries) THEN labels
    ELSE IF \E j \in 1..Len(labels) : labels[j] = entries[i].source
    THEN DistinctSources(entries, i + 1, labels)
    ELSE DistinctSources(entries, i + 1, Append(labels, entries[i].source))

\* the session's question was answered by the model
Answered(s) == sessions[s].pc \in {"evict", "returned"} /\ sessions[s].response.has_context

\* C26 (as claimed): for every answered question, overview or specific, the
\* sources of the response are the distinct source labels of the passages of
\* the context bundle, in order of first appearance.
C26_SourcesAreBundleLabels ==
    \A s \in Sessions :
        Answered(s) =>
            sessions[s].response.sources =
                DistinctSources(sessions[s].retrieval.bundle.entries, 1, <<>>)

\* C30: the messages of a model call are the system message with the context
\* of the retrieval, then a user and an assistant message for each of the
\* last 5 turns (all, if fewer) of the history as it stands when the question
\* is asked, oldest first, then the question as the last user message; the
\* turn of the question is appended only by the step in which the model call
\* returns, as the turn of its response.
C30_MessagesThenAppend ==
    [][\A s \in Sessions :
          /\ (sessions[s].pc # "calling" /\ sessions'[s].pc = "calling") =>
                LET n == Min(5, Len(chat_history))
                    first == Len(chat_history) - n
                    messages == sessions'[s].messages
                IN  /\ Len(messages) = 2 * n + 2
                    /\ messages[1] = SystemMessage(sessions'[s].overview,
                                                   sessions'[s].retrieval.bundle.out)
                    /\ messages[1].context # <<>>
                    /\ \A i \in 1..n :
                           /\ messages[2 * i] = UserMessage(chat_history[first + i].question)
                           /\ messages[2 * i + 1] = AssistantMessage(chat_history[first + i].answer)
                    /\ messages[2 * n + 2] = UserMessage(sessions'[s].question)
                    /\ appended' = appended
          /\ (/\ sessions'[s].pc # "idle"
              /\ sessions'[s].invoked
              /\ \E i \in 1..Len(appended') : appended'[i].question = sessions'[s].question
              /\ \A i \in 1..Len(appended) : appended[i].question # sessions'[s].question) =>
                /\ sessions[s].pc = "calling"
                /\ sessions'[s].pc = "evict"
                /\ appended' = Append(appended, Turn(sessions[s].question, sessions'[s].response))
                /\ chat_history' = Append(chat_history, Turn(sessions[s].question, sessions'[s].response))
      ]_vars

\* C30 witness: a question asked on a history of 10 turns is with the model:
\* 12 messages, the first turn sent being the sixth of the history, and the
\* question not yet in the history.
C30_Witness ==
    \E s \in Sessions :
        /\ sessions[s].pc = "calling"
        /\ Len(chat_history) = max_history_length
        /\ Len(sessions[s].messages) = 12
        /\ sessions[s].messages[2] = UserMessage(chat_history[6].question)
        /\ sessions[s].messages[11] = AssistantMessage(chat_history[10].answer)
        /\ \A i \in 1..Len(chat_history) : chat_history[i].question # sessions[s].question

\* a step in which no question advances and after which the last return is
\* that of reset_system: a reset_system call, or a clear_chat_history call
\* that follows one
ResetReturns == last_return'.op = "reset_system" /\ UNCHANGED <<sessions, asked>>

\* C29: after every reset_system call the chat history and the tracked
\* documents are empty, whether it returned True or False and whether or not
\* the collection was deleted.
C29_ResetEmptiesWhateverItReturns ==
    [][ResetReturns => (chat_history' = <<>> /\ uploaded_documents' = {})]_vars

\* C29 witness: reset_system, the first call made on a chatbot with tracked
\* documents and passages in the index, has returned False with the
\* collection still there; the history and the tracking are empty.
C29_Witness ==
    /\ last_return = [op |-> "reset_system", success |-> FALSE]
    /\ asked = 0
    /\ index # <<>>
    /\ chat_history = <<>>
    /\ uploaded_documents = {}

(***************************************************************************)
(* Properties of the tracked documents (specification SpecTrack).          *)
(***************************************************************************)
\* C28: generate_exam asks the index (and then the model) only when an
\* upload_pdf has returned success since the chatbot was created or last
\* reset; otherwise it returns the failure "No documents uploaded" with no
\* retrieval and no model call; an upload_pdf that returns failure leaves the
\* tracked documents as they were.
C28_ExamNeedsUploadSinceReset ==
    [][/\ (exam_run.pc = "idle" /\ exam_run'.pc # "idle") => uploads > 0
       /\ (uploads = 0 /\ exam_result' # exam_result) =>
              /\ exam_result' = Failure("No documents uploaded")
              /\ exam_run' = exam_run
       /\ (last_return'.op = "upload_pdf" /\ ~last_return'.success) =>
              uploaded_documents' = uploaded_documents
      ]_vars

\* C28 witness: after an upload that stored a passage and a reset_system that
\* left the collection in place, generate_exam returned "No documents
\* uploaded" without a retrieval.
C28_Witness ==
    /\ last_return.op = "reset_system"
    /\ index # <<>>
    /\ uploads = 0
    /\ exam_result = Failure("No documents uploaded")
    /\ exam_run = NoRun

====
